---- MODULE Spec2Model ----
(***************************************************************************)
(* PDF ingestion pipeline: the ingest route handler (primary extraction,   *)
(* sufficiency check, Document AI OCR fallback) and the text normalizer    *)
(* that turns extracted text into (heading, body) sections.                *)
(*                                                                         *)
(* A JavaScript string is modelled as a sequence of characters; every      *)
(* character is a one-character string, except the tokens NBSP (U+00A0)    *)
(* and BULLET (the non-ASCII bullet glyphs of BULLET_PREFIX_REGEX).        *)
(***************************************************************************)
EXTENDS Integers, Sequences, FiniteSets, TLC

\* ------------------------------------------------------------------------
\* Characters
\* ------------------------------------------------------------------------

NBSP == "NBSP"
BULLET == "BULLET"

SpaceTab == {" ", "\t"}
\* what \s and String.prototype.trim treat as white space
WhiteSpace == {" ", "\t", "\n", "\r", "\f", NBSP}
Digits == {"0", "1", "2", "3", "4", "5", "6", "7", "8", "9"}
UpperSeq == <<"A", "B", "C", "D", "E", "F", "G", "H", "I", "J", "K", "L", "M",
              "N", "O", "P", "Q", "R", "S", "T", "U", "V", "W", "X", "Y", "Z">>
LowerSeq == <<"a", "b", "c", "d", "e", "f", "g", "h", "i", "j", "k", "l", "m",
              "n", "o", "p", "q", "r", "s", "t", "u", "v", "w", "x", "y", "z">>
UpperLetters == {UpperSeq[i] : i \in 1..Len(UpperSeq)}
LowerLetters == {LowerSeq[i] : i \in 1..Len(LowerSeq)}
Letters == UpperLetters \cup LowerLetters
\* the glyphs inside the character class of BULLET_PREFIX_REGEX
BulletGlyphs == {"-", "*", BULLET}
\* the punctuation shared by the heading character classes: - ( ) / : %
TitlePunct == {"-", "(", ")", "/", ":", "%"}

toUpperCase(c) ==
  IF c \in LowerLetters
    THEN UpperSeq[CHOOSE i \in 1..Len(LowerSeq) : LowerSeq[i] = c]
    ELSE c

toLowerCase(c) ==
  IF c \in UpperLetters
    THEN LowerSeq[CHOOSE i \in 1..Len(UpperSeq) : UpperSeq[i] = c]
    ELSE c

\* ------------------------------------------------------------------------
\* String primitives (String.prototype.trim, split, join, regex runs)
\* ------------------------------------------------------------------------

\* index just past the maximal run of characters of C that starts at i
RunEnd(s, i, C) ==
  IF i > Len(s) THEN i
  ELSE CHOOSE j \in i..(Len(s) + 1) :
         /\ j = Len(s) + 1 \/ s[j] \notin C
         /\ \A k \in i..(j - 1) : s[k] \in C

\* index just past the maximal run of non-white-space that starts at i
WordEnd(s, i) ==
  IF i > Len(s) THEN i
  ELSE CHOOSE j \in i..(Len(s) + 1) :
         /\ j = Len(s) + 1 \/ s[j] \in WhiteSpace
         /\ \A k \in i..(j - 1) : s[k] \notin WhiteSpace

TrimStart(s) == SubSeq(s, RunEnd(s, 1, WhiteSpace), Len(s))

TrimEnd(s) ==
  LET solid == {i \in 1..Len(s) : s[i] \notin WhiteSpace}
  IN IF solid = {} THEN <<>>
     ELSE SubSeq(s, 1, CHOOSE i \in solid : \A k \in solid : k <= i)

Trim(s) == TrimEnd(TrimStart(s))

\* the characters of s at the positions of K, in order
Pick(s, K) ==
  LET tagged == [i \in 1..Len(s) |-> <<i, s[i]>>]
      kept == SelectSeq(tagged, LAMBDA p : p[1] \in K)
  IN [n \in 1..Len(kept) |-> kept[n][2]]

ReplaceChar(s, from, to) ==
  [i \in 1..Len(s) |-> IF s[i] = from THEN to ELSE s[i]]

\* s.split(sep) for a one-character separator
RECURSIVE Split(_, _)
Split(s, sep) ==
  LET hits == {i \in 1..Len(s) : s[i] = sep}
  IN IF hits = {} THEN <<s>>
     ELSE LET j == CHOOSE i \in hits : \A k \in hits : i <= k
          IN <<SubSeq(s, 1, j - 1)>> \o Split(SubSeq(s, j + 1, Len(s)), sep)

\* parts.join(sep) for a one-character separator
RECURSIVE Join(_, _)
Join(parts, sep) ==
  IF parts = <<>> THEN <<>>
  ELSE IF Len(parts) = 1 THEN parts[1]
  ELSE parts[1] \o <<sep>> \o Join(Tail(parts), sep)

\* line.split(/\s+/).filter(Boolean)
RECURSIVE Words(_)
Words(s) ==
  LET t == TrimStart(s)
  IN IF t = <<>> THEN <<>>
     ELSE LET j == WordEnd(t, 1)
          IN <<SubSeq(t, 1, j - 1)>> \o Words(SubSeq(t, j, Len(t)))

\* .replace(/\r\n?/g, "\n"): a line feed right after a carriage return goes,
\* every carriage return becomes a line feed
ReplaceCrLf(s) ==
  LET gone == {i \in 2..Len(s) : s[i] = "\n" /\ s[i - 1] = "\r"}
  IN ReplaceChar(Pick(s, (1..Len(s)) \ gone), "\r", "\n")

\* .replace(/[ \t]+\n/g, "\n"): every run of spaces and tabs that is
\* followed by a line feed goes
StripBeforeLineFeed(s) ==
  LET gone == {i \in 1..Len(s) :
                 /\ s[i] \in SpaceTab
                 /\ LET j == RunEnd(s, i, SpaceTab)
                    IN j <= Len(s) /\ s[j] = "\n"}
  IN Pick(s, (1..Len(s)) \ gone)

\* .replace(/[ \t]+$/gm, ""): every run of spaces and tabs that ends a line
\* (before a line terminator or at the end of the string) goes
StripLineEnds(s) ==
  LET gone == {i \in 1..Len(s) :
                 /\ s[i] \in SpaceTab
                 /\ LET j == RunEnd(s, i, SpaceTab)
                    IN j > Len(s) \/ s[j] \in {"\n", "\r"}}
  IN Pick(s, (1..Len(s)) \ gone)

\* .replace(/\n{3,}/g, "\n\n"): of a run of line feeds the first two stay
CollapseLineFeeds(s) ==
  LET gone == {i \in 3..Len(s) :
                 s[i] = "\n" /\ s[i - 1] = "\n" /\ s[i - 2] = "\n"}
  IN Pick(s, (1..Len(s)) \ gone)

\* ------------------------------------------------------------------------
\* pdf-normalizer: the regular expressions
\* ------------------------------------------------------------------------

\* the flags of the three module-level RegExp objects
PageMarkerFlagsGlobal == {"g", "i"}

PageMarkerFlags == {"i"}
NumberedBulletFlags == {}
BulletPrefixFlags == {"u"}

\* a RegExp with the g or the y flag reads and writes its lastIndex
Stateful(flags) == flags \cap {"g", "y"} # {}

\* lastIndex of PAGE_MARKER_REGEX, NUMBERED_BULLET_REGEX, BULLET_PREFIX_REGEX
ZeroLastIndex == [page |-> 0, numbered |-> 0, bullet |-> 0]

\* RegExp.prototype.test for a pattern anchored at ^ (no m flag): matchLength
\* is the length of the match at index 0, 0 when there is none. Without g/y
\* lastIndex is neither read nor written; with g/y the search starts at
\* lastIndex, where ^ matches only if lastIndex is 0
RegExpTest(flags, lastIndex, matchLength) ==
  IF ~Stateful(flags)
    THEN [result |-> matchLength > 0, lastIndex |-> lastIndex]
  ELSE IF lastIndex = 0 /\ matchLength > 0
    THEN [result |-> TRUE, lastIndex |-> matchLength]
  ELSE [result |-> FALSE, lastIndex |-> 0]

\* line.replace(regex, "") for such a pattern: with g the replacement starts
\* from lastIndex 0 and leaves 0; with y alone it starts at lastIndex
RegExpReplace(flags, lastIndex, line, matchLength) ==
  LET stripped == SubSeq(line, matchLength + 1, Len(line))
  IN IF ~Stateful(flags)
       THEN [value |-> stripped, lastIndex |-> lastIndex]
     ELSE IF "g" \in flags
       THEN [value |-> stripped, lastIndex |-> 0]
     ELSE IF lastIndex = 0 /\ matchLength > 0
       THEN [value |-> stripped, lastIndex |-> matchLength]
     ELSE [value |-> line, lastIndex |-> 0]

\* PAGE_MARKER_REGEX.test(line):  /^--\s*\d+\s+of\s+\d+\s*--$/i
PAGE_MARKER_REGEX(line) ==
  /\ Len(line) >= 2 /\ line[1] = "-" /\ line[2] = "-"
  /\ LET b == RunEnd(line, 3, WhiteSpace)
         c == RunEnd(line, b, Digits)
         d == RunEnd(line, c, WhiteSpace)
         e == d + 2
         f == RunEnd(line, e, WhiteSpace)
         g == RunEnd(line, f, Digits)
         h == RunEnd(line, g, WhiteSpace)
     IN /\ c > b
        /\ d > c
        /\ d + 1 <= Len(line)
        /\ line[d] \in (IF "i" \in PageMarkerFlags THEN {"o", "O"} ELSE {"o"})
        /\ line[d + 1] \in (IF "i" \in PageMarkerFlags THEN {"f", "F"} ELSE {"f"})
        /\ f > e
        /\ g > f
        /\ h + 1 = Len(line)
        /\ line[h] = "-" /\ line[h + 1] = "-"

\* NUMBERED_BULLET_REGEX: /^\d+[\.\)]\s+/ ; the index just past the match,
\* 0 when the line does not match
NumberedBulletEnd(line) ==
  LET a == RunEnd(line, 1, Digits)
      b == RunEnd(line, a + 1, WhiteSpace)
  IN IF a > 1 /\ a <= Len(line) /\ line[a] \in {".", ")"} /\ b > a + 1
       THEN b ELSE 0

NUMBERED_BULLET_REGEX(line) == NumberedBulletEnd(line) # 0

\* the lengths of the matches at index 0 (0: no match)
PageMarkerLength(line) == IF PAGE_MARKER_REGEX(line) THEN Len(line) ELSE 0

NumberedBulletLength(line) ==
  IF NumberedBulletEnd(line) = 0 THEN 0 ELSE NumberedBulletEnd(line) - 1

\* BULLET_PREFIX_REGEX: /^[\s]*[glyphs]+[ \t]*/u ; the index just past the
\* match, 0 when the line does not match
BulletPrefixEnd(line) ==
  LET a == RunEnd(line, 1, WhiteSpace)
      b == RunEnd(line, a, BulletGlyphs)
  IN IF b > a THEN RunEnd(line, b, SpaceTab) ELSE 0

BULLET_PREFIX_REGEX(line) == BulletPrefixEnd(line) # 0

BulletPrefixLength(line) ==
  IF BulletPrefixEnd(line) = 0 THEN 0 ELSE BulletPrefixEnd(line) - 1

\* ------------------------------------------------------------------------
\* pdf-normalizer: helpers
\* ------------------------------------------------------------------------

HeadingMaxLength == 80

\* .replace(/\s+/g, " ")
CollapseWhiteSpace(s) ==
  LET gone == {i \in 2..Len(s) : s[i] \in WhiteSpace /\ s[i - 1] \in WhiteSpace}
      kept == Pick(s, (1..Len(s)) \ gone)
  IN [i \in 1..Len(kept) |-> IF kept[i] \in WhiteSpace THEN " " ELSE kept[i]]

\* variant: runs of line feeds are cut before the spaces in front of line
\* feeds are removed
sanitizeTextCollapseFirst(value) ==
  Trim(StripBeforeLineFeed(CollapseLineFeeds(
    ReplaceChar(ReplaceChar(ReplaceCrLf(value), NBSP, " "), "\t", " "))))

sanitizeText(value) ==
  Trim(CollapseLineFeeds(StripBeforeLineFeed(
    ReplaceChar(ReplaceChar(ReplaceCrLf(value), NBSP, " "), "\t", " "))))

\* variant: every list of lines counts as content
hasContentAlways(lines) == TRUE

hasContent(lines) ==
  \E i \in 1..Len(lines) : Len(Trim(lines[i])) > 0

\* variant: without the final trim
collapseLinesUntrimmed(lines) ==
  StripLineEnds(CollapseLineFeeds(Join(lines, "\n")))

collapseLines(lines) ==
  Trim(StripLineEnds(CollapseLineFeeds(Join(lines, "\n"))))

\* variant: bullet and numbered prefixes are kept
normalizeBulletLineAtKeepsPrefix(li, line) ==
  [value |-> Trim(line), lastIndex |-> li]

\* normalizeBulletLine called with the lastIndex values li: the returned
\* string and the lastIndex values it leaves
normalizeBulletLineAt(li, line) ==
  LET b == RegExpTest(BulletPrefixFlags, li.bullet, BulletPrefixLength(line))
      n == RegExpTest(NumberedBulletFlags, li.numbered, NumberedBulletLength(line))
  IN IF b.result
       THEN LET rep == RegExpReplace(BulletPrefixFlags, b.lastIndex, line,
                                     BulletPrefixLength(line))
                stripped == Trim(rep.value)
            IN [value |-> IF stripped # <<>> THEN <<"-", " ">> \o stripped ELSE <<>>,
                lastIndex |-> [li EXCEPT !.bullet = rep.lastIndex]]
     ELSE IF n.result
       THEN LET rep == RegExpReplace(NumberedBulletFlags, n.lastIndex, line,
                                     NumberedBulletLength(line))
            IN [value |-> <<"-", " ">> \o Trim(rep.value),
                lastIndex |-> [li EXCEPT !.bullet = b.lastIndex,
                                         !.numbered = rep.lastIndex]]
     ELSE [value |-> Trim(line),
           lastIndex |-> [li EXCEPT !.bullet = b.lastIndex,
                                    !.numbered = n.lastIndex]]

normalizeBulletLine(line) == normalizeBulletLineAt(ZeroLastIndex, line).value

\* /^[A-Z][A-Za-z0-9\-()/:%]*$/.test(line)
SingleWordTitleRegex(line) ==
  /\ Len(line) >= 1
  /\ line[1] \in UpperLetters
  /\ \A i \in 2..Len(line) : line[i] \in Letters \cup Digits \cup TitlePunct

\* /^[A-Za-z0-9\s,'&\-()/:%]+$/.test(line)
MultiWordTitleRegex(line) ==
  /\ Len(line) >= 1
  /\ \A i \in 1..Len(line) :
       line[i] \in Letters \cup Digits \cup WhiteSpace \cup {",", "'", "&"} \cup TitlePunct

\* /^[A-Z0-9\s,'&\-()/:%]+$/.test(trimmed)
UpperHeadingRegex(line) ==
  /\ Len(line) >= 1
  /\ \A i \in 1..Len(line) :
       line[i] \in UpperLetters \cup Digits \cup WhiteSpace \cup {",", "'", "&"} \cup TitlePunct

\* variant: one ratio threshold, whatever the line ends with
HeadingHeuristicsOneThreshold(line) ==
  LET lettersOnly == SelectSeq(line, LAMBDA c : c \in Letters)
      uppercaseLetters == Len(SelectSeq(lettersOnly, LAMBDA c : c \in UpperLetters))
  IN /\ lettersOnly # <<>>
     /\ \/ 10 * uppercaseLetters >= 6 * Len(lettersOnly)
        \/ Len(Words(line)) = 1 /\ SingleWordTitleRegex(line)
        \/ line[Len(line)] = ":"

\* variant: the casing heuristics without the colon rule
HeadingHeuristicsNoColon(line) ==
  LET lettersOnly == SelectSeq(line, LAMBDA c : c \in Letters)
      uppercaseLetters == Len(SelectSeq(lettersOnly, LAMBDA c : c \in UpperLetters))
      words == Words(line)
  IN /\ lettersOnly # <<>>
     /\ line[Len(line)] \notin {".", "?", "!"}
     /\ \/ 10 * uppercaseLetters >= 6 * Len(lettersOnly)
        \/ Len(words) = 1 /\ SingleWordTitleRegex(line)

\* isHeadingCandidate after the bullet tests: the casing heuristics
HeadingHeuristics(line) ==
  LET lettersOnly == SelectSeq(line, LAMBDA c : c \in Letters)
      uppercaseLetters == Len(SelectSeq(lettersOnly, LAMBDA c : c \in UpperLetters))
      words == Words(line)
      capitalizedWordCount ==
        Cardinality({i \in 1..Len(words) : words[i][1] \in UpperLetters \cup Digits})
      \* Math.ceil(words.length * 0.6)
      ceil06 == (6 * Len(words) + 9) \div 10
      singleWordTitle == Len(words) = 1 /\ SingleWordTitleRegex(line)
      multiWordTitle ==
        /\ Len(words) > 1
        /\ MultiWordTitleRegex(line)
        /\ capitalizedWordCount >= (IF ceil06 > 2 THEN ceil06 ELSE 2)
      endsWithColon == Len(line) >= 1 /\ line[Len(line)] = ":"
      endsWithSentencePunctuation ==
        Len(line) >= 1 /\ line[Len(line)] \in {".", "?", "!"}
  IN IF lettersOnly = <<>> THEN FALSE
     ELSE IF endsWithSentencePunctuation
       \* uppercaseRatio >= 0.9
       THEN 10 * uppercaseLetters >= 9 * Len(lettersOnly)
       \* uppercaseRatio >= 0.6 || ...
       ELSE \/ 10 * uppercaseLetters >= 6 * Len(lettersOnly)
            \/ singleWordTitle
            \/ multiWordTitle
            \/ endsWithColon

\* variant: lines of any length can be headings
isHeadingCandidateAtAnyLength(li, line, previousLineWasBlank) ==
  [value |-> /\ previousLineWasBlank
             /\ NumberedBulletLength(line) = 0 /\ BulletPrefixLength(line) = 0
             /\ HeadingHeuristics(line),
   lastIndex |-> li]

\* variant: bullet and numbered lines are not excluded from the headings
isHeadingCandidateAtAnyPrefix(li, line, previousLineWasBlank) ==
  [value |-> previousLineWasBlank /\ Len(line) <= HeadingMaxLength
               /\ HeadingHeuristics(line),
   lastIndex |-> li]

\* isHeadingCandidate called with the lastIndex values li: the returned
\* boolean and the lastIndex values it leaves (|| tests the bullet prefix
\* only when the numbered prefix did not match)
isHeadingCandidateAt(li, line, previousLineWasBlank) ==
  IF ~previousLineWasBlank THEN [value |-> FALSE, lastIndex |-> li]
  ELSE IF Len(line) > HeadingMaxLength THEN [value |-> FALSE, lastIndex |-> li]
  ELSE
    LET n == RegExpTest(NumberedBulletFlags, li.numbered, NumberedBulletLength(line))
        b == RegExpTest(BulletPrefixFlags, li.bullet, BulletPrefixLength(line))
    IN IF n.result
         THEN [value |-> FALSE, lastIndex |-> [li EXCEPT !.numbered = n.lastIndex]]
       ELSE IF b.result
         THEN [value |-> FALSE,
               lastIndex |-> [li EXCEPT !.numbered = n.lastIndex,
                                        !.bullet = b.lastIndex]]
       ELSE [value |-> HeadingHeuristics(line),
             lastIndex |-> [li EXCEPT !.numbered = n.lastIndex,
                                      !.bullet = b.lastIndex]]

isHeadingCandidate(line, previousLineWasBlank) ==
  isHeadingCandidateAt(ZeroLastIndex, line, previousLineWasBlank).value

\* the map callback of normalizeHeading, applied to a lower-cased word
TitleCaseWord(word) ==
  IF Len(word) <= 3 \/ \A i \in 1..Len(word) : word[i] \notin LowerLetters
    THEN [i \in 1..Len(word) |-> toUpperCase(word[i])]
    ELSE [i \in 1..Len(word) |-> IF i = 1 THEN toUpperCase(word[i]) ELSE word[i]]

normalizeHeading(line) ==
  LET trimmed == CollapseWhiteSpace(Trim(line))
  IN IF UpperHeadingRegex(trimmed)
          /\ trimmed = [i \in 1..Len(trimmed) |-> toUpperCase(trimmed[i])]
       THEN LET lower == [i \in 1..Len(trimmed) |-> toLowerCase(trimmed[i])]
                parts == Split(lower, " ")
            IN Join([i \in 1..Len(parts) |-> TitleCaseWord(parts[i])], " ")
       ELSE trimmed

\* ------------------------------------------------------------------------
\* pdf-normalizer: normalizePdfText
\* ------------------------------------------------------------------------

DocumentHeading == <<"D", "o", "c", "u", "m", "e", "n", "t">>

\* currentSection = null
NoSection == [open |-> FALSE, heading |-> <<>>, lines |-> <<>>]

\* the local variables of normalizePdfText before the loop, the lastIndex
\* values of the three RegExp objects, and the branch the last iteration took
LoopStartAt(li) ==
  [sections |-> <<>>,
   currentSection |-> NoSection,
   previousLineWasBlank |-> TRUE,
   encounteredMeaningfulLine |-> FALSE,
   lastIndex |-> li,
   branch |-> "none"]

LoopStart == LoopStartAt(ZeroLastIndex)

\* variant: the open section is pushed whatever its lines
PushIfOpen(sections, currentSection) ==
  IF currentSection.open
    THEN Append(sections, [heading |-> currentSection.heading,
                           body |-> collapseLines(currentSection.lines)])
    ELSE sections

\* sections.push({heading, body: collapseLines(lines)}) when the open
\* section has content
PushIfContent(sections, currentSection) ==
  IF currentSection.open /\ hasContent(currentSection.lines)
    THEN Append(sections, [heading |-> currentSection.heading,
                           body |-> collapseLines(currentSection.lines)])
    ELSE sections

\* variant: a line that normalizes to empty leaves the blank flag alone
LoopBodyLineKeepsFlag(st, bullet) ==
  IF bullet.value = <<>>
    THEN [st EXCEPT !.encounteredMeaningfulLine = TRUE,
                    !.lastIndex = bullet.lastIndex,
                    !.branch = "empty"]
    ELSE [st EXCEPT
            !.currentSection =
              IF st.currentSection.open
                THEN [st.currentSection EXCEPT !.lines = Append(@, bullet.value)]
                ELSE [open |-> TRUE,
                      heading |-> DocumentHeading,
                      lines |-> <<bullet.value>>],
            !.previousLineWasBlank = FALSE,
            !.encounteredMeaningfulLine = TRUE,
            !.lastIndex = bullet.lastIndex,
            !.branch = "body"]

\* the loop body from normalizeBulletLine on: bullet is what it returned
LoopBodyLine(st, bullet) ==
  IF bullet.value = <<>>
    THEN [st EXCEPT !.previousLineWasBlank = TRUE,
                    !.encounteredMeaningfulLine = TRUE,
                    !.lastIndex = bullet.lastIndex,
                    !.branch = "empty"]
    ELSE [st EXCEPT
            !.currentSection =
              IF st.currentSection.open
                THEN [st.currentSection EXCEPT !.lines = Append(@, bullet.value)]
                ELSE [open |-> TRUE,
                      heading |-> DocumentHeading,
                      lines |-> <<bullet.value>>],
            !.previousLineWasBlank = FALSE,
            !.encounteredMeaningfulLine = TRUE,
            !.lastIndex = bullet.lastIndex,
            !.branch = "body"]

\* variant: a heading equal to the heading of the open section continues
\* that section
LoopBodyHeadingMerging(st, trimmedLine, heading) ==
  IF heading.value
    THEN IF st.currentSection.open
              /\ st.currentSection.heading = normalizeHeading(trimmedLine)
           THEN [st EXCEPT !.previousLineWasBlank = FALSE,
                           !.encounteredMeaningfulLine = TRUE,
                           !.lastIndex = heading.lastIndex,
                           !.branch = "heading"]
           ELSE [sections |-> PushIfContent(st.sections, st.currentSection),
                 currentSection |-> [open |-> TRUE,
                                     heading |-> normalizeHeading(trimmedLine),
                                     lines |-> <<>>],
                 previousLineWasBlank |-> FALSE,
                 encounteredMeaningfulLine |-> TRUE,
                 lastIndex |-> heading.lastIndex,
                 branch |-> "heading"]
    ELSE LoopBodyLine(st, normalizeBulletLineAt(heading.lastIndex, trimmedLine))

\* the loop body from isHeadingCandidate on: heading is what it returned
LoopBodyHeading(st, trimmedLine, heading) ==
  IF heading.value
    THEN [sections |-> PushIfContent(st.sections, st.currentSection),
          currentSection |-> [open |-> TRUE,
                              heading |-> normalizeHeading(trimmedLine),
                              lines |-> <<>>],
          previousLineWasBlank |-> FALSE,
          encounteredMeaningfulLine |-> TRUE,
          lastIndex |-> heading.lastIndex,
          branch |-> "heading"]
    ELSE LoopBodyLine(st, normalizeBulletLineAt(heading.lastIndex, trimmedLine))

\* the loop body from PAGE_MARKER_REGEX.test on: page is what it returned
LoopBodyMarker(st, trimmedLine, page) ==
  IF page.result
    THEN [st EXCEPT !.previousLineWasBlank = TRUE,
                    !.lastIndex = [@ EXCEPT !.page = page.lastIndex],
                    !.branch = "marker"]
    ELSE LoopBodyHeading(st, trimmedLine,
           isHeadingCandidateAt([st.lastIndex EXCEPT !.page = page.lastIndex],
                                trimmedLine, st.previousLineWasBlank))

\* the loop body after const trimmedLine = rawLine.trim()
LoopBodyTrimmed(st, trimmedLine) ==
  IF trimmedLine = <<>>
    THEN [st EXCEPT
            !.currentSection =
              IF @.open /\ hasContent(@.lines)
                THEN [@ EXCEPT !.lines = Append(@, <<>>)]
                ELSE @,
            !.previousLineWasBlank = TRUE,
            !.branch = "blank"]
    ELSE LoopBodyMarker(st, trimmedLine,
           RegExpTest(PageMarkerFlags, st.lastIndex.page, PageMarkerLength(trimmedLine)))

\* one iteration of the loop over the lines
LoopBody(st, rawLine) == LoopBodyTrimmed(st, Trim(rawLine))

\* the loop over lines[i..]
RECURSIVE Loop(_, _, _)
Loop(lines, i, st) ==
  IF i > Len(lines) THEN st ELSE Loop(lines, i + 1, LoopBody(st, lines[i]))

\* variant: without the single-section fallback after the loop
normalizePdfTextNoFallback(text) ==
  LET sanitized == sanitizeText(text)
  IN IF sanitized = <<>> THEN <<>>
     ELSE LET st == Loop(Split(sanitized, "\n"), 1, LoopStart)
          IN PushIfContent(st.sections, st.currentSection)

\* variant: the single-section fallback always takes the heading "Document"
normalizePdfTextDocumentFallback(text) ==
  LET sanitized == sanitizeText(text)
  IN IF sanitized = <<>> THEN <<>>
     ELSE
       LET st == Loop(Split(sanitized, "\n"), 1, LoopStart)
           cur == st.currentSection
           sections == PushIfContent(st.sections, cur)
       IN IF Len(sections) = 0 /\ st.encounteredMeaningfulLine
            THEN << [heading |-> DocumentHeading,
                     body |-> collapseLines(
                                IF cur.open /\ Len(cur.lines) > 0
                                  THEN cur.lines
                                  ELSE <<sanitized>>)] >>
            ELSE sections

\* normalizePdfText after the final push: the single-section fallback
normalizePdfTextPushed(sanitized, st, sections) ==
  [sections |->
     IF Len(sections) = 0 /\ st.encounteredMeaningfulLine
       THEN << [heading |-> IF st.currentSection.open
                              THEN st.currentSection.heading
                              ELSE DocumentHeading,
                body |-> collapseLines(
                           IF st.currentSection.open /\ Len(st.currentSection.lines) > 0
                             THEN st.currentSection.lines
                             ELSE <<sanitized>>)] >>
       ELSE sections,
   lastIndex |-> st.lastIndex]

\* normalizePdfText after the loop: st holds the locals the loop left
normalizePdfTextLooped(sanitized, st) ==
  normalizePdfTextPushed(sanitized, st, PushIfContent(st.sections, st.currentSection))

\* normalizePdfText after const sanitized = sanitizeText(text)
normalizePdfTextSanitized(li, sanitized) ==
  IF sanitized = <<>> THEN [sections |-> <<>>, lastIndex |-> li]
  ELSE normalizePdfTextLooped(sanitized, Loop(Split(sanitized, "\n"), 1, LoopStartAt(li)))

\* normalizePdfText called with the lastIndex values li: the returned
\* sections and the lastIndex values the call leaves
normalizePdfTextAt(li, text) == normalizePdfTextSanitized(li, sanitizeText(text))

normalizePdfText(text) == normalizePdfTextAt(ZeroLastIndex, text).sections

\* ------------------------------------------------------------------------
\* Ingest route: pure parts
\* ------------------------------------------------------------------------

MIN_EMBEDDED_TEXT_CHARACTERS == 25

\* text.replace(/\s+/g, "")
Compact(text) == SelectSeq(text, LAMBDA c : c \notin WhiteSpace)

\* variant: only empty text needs the fallback (the check of the first route)
requiresOcrFallbackEmptyOnly(text) == Len(text) = 0

\* variant: white space counts towards the threshold
requiresOcrFallbackRawLength(text) == Len(text) < MIN_EMBEDDED_TEXT_CHARACTERS

requiresOcrFallback(text) ==
  LET compact == Compact(text)
  IN IF Len(compact) = 0 THEN TRUE
     ELSE Len(compact) < MIN_EMBEDDED_TEXT_CHARACTERS

UNDEFINED == "undefined"

\* file.name.toLowerCase().endsWith(".pdf")
EndsWithPdf(name) ==
  /\ Len(name) >= 4
  /\ [i \in 1..4 |-> toLowerCase(name[Len(name) - 4 + i])] = <<".", "p", "d", "f">>

\* variant: only the MIME type is looked at
isPdfByType(file) ==
  file.type = "application/pdf"

\* isPdf of POST
isPdf(file) ==
  file.type = "application/pdf" \/ EndsWithPdf(file.name)

\* ------------------------------------------------------------------------
\* Collaborators: pdf-parser and document-ai-ocr
\* ------------------------------------------------------------------------

\* the catch branch of extractPdfText
EmptyParsed == [text |-> <<>>, metadata |-> [pageCount |-> 0]]

\* ensureWorkerConfigured: PDFParse.setWorker runs only while the module flag
\* is unset; the flag is set only when it did not throw
ensureWorkerConfigured(configured, setWorkerOk) ==
  IF configured THEN [threw |-> FALSE, workerConfigured |-> TRUE]
  ELSE IF setWorkerOk THEN [threw |-> FALSE, workerConfigured |-> TRUE]
  ELSE [threw |-> TRUE, workerConfigured |-> FALSE]

\* the try block of extractPdfText after ensureWorkerConfigured: parser is
\* the created PDFParse instance (FALSE when worker configuration threw),
\* answer what getText, getInfo and destroy do
extractPdfTextTry(parser, answer) ==
  IF ~parser \/ answer.getText = "throws" \/ answer.getInfo = "throws"
    THEN [threw |-> TRUE]
    ELSE [threw |-> FALSE,
          value |-> [text |-> Trim(answer.text),
                     metadata |-> [title |-> answer.title, pageCount |-> answer.total]]]

\* variant: destroy is called at the end of the try block only
destroyParserAfterSuccess(parser, answer) ==
  LET reached == parser /\ ~extractPdfTextTry(parser, answer).threw
  IN [calls |-> IF reached THEN 1 ELSE 0,
      logged |-> reached /\ answer.destroy = "throws",
      threw |-> FALSE]

\* the finally block: parser.destroy() in a try/catch of its own; the
\* number of calls of destroy, whether its failure was logged, and whether
\* the block threw
destroyParser(parser, answer) ==
  [calls |-> IF parser THEN 1 ELSE 0,
   logged |-> parser /\ answer.destroy = "throws",
   threw |-> FALSE]

\* variant: the text is kept when only getInfo fails
extractPdfTextKeepsText(parser, answer) ==
  IF parser /\ answer.getText = "ok" /\ answer.getInfo = "throws"
    THEN [kind |-> "resolves",
          value |-> [text |-> Trim(answer.text), metadata |-> [pageCount |-> 0]]]
    ELSE [kind |-> "resolves",
          value |-> IF extractPdfTextTry(parser, answer).threw
                      THEN EmptyParsed
                      ELSE extractPdfTextTry(parser, answer).value]

\* extractPdfText: the way the returned promise settles (try, catch, finally)
extractPdfText(parser, answer) ==
  LET try == extractPdfTextTry(parser, answer)
      fin == destroyParser(parser, answer)
  IN IF fin.threw THEN [kind |-> "rejects"]
     ELSE [kind |-> "resolves",
           value |-> IF try.threw THEN EmptyParsed ELSE try.value]

\* loadConfig: env says whether GOOGLE_CLOUD_PROJECT_ID and
\* GOOGLE_CLOUD_PROCESSOR_ID are set now
loadConfig(cached, env) ==
  IF cached THEN [threw |-> FALSE, cachedConfig |-> TRUE]
  ELSE IF ~env.ids THEN [threw |-> TRUE, cachedConfig |-> FALSE]
  ELSE [threw |-> FALSE, cachedConfig |-> TRUE]

\* getAuthHeaders up to `await authClientPromise`: the promise is created
\* once and kept, whether it resolves or rejects
getAuthClient(promise, env) ==
  IF promise = "none" THEN env.client ELSE promise

\* runDocumentAiOcr called with the module state (cachedConfig,
\* authClientPromise) and the environment's answers for this call: the way
\* the returned promise settles, and the module state it leaves
runDocumentAiOcr(cached, promise, env) ==
  LET cfg == loadConfig(cached, env)
      client == getAuthClient(promise, env)
      svc == env.service
      settle ==
        IF cfg.threw THEN [kind |-> "throws", error |-> "config"]
        ELSE IF client = "rejected" THEN [kind |-> "throws", error |-> "auth"]
        ELSE IF svc.kind = "noToken" THEN [kind |-> "throws", error |-> "token"]
        ELSE IF svc.kind = "networkError" THEN [kind |-> "throws", error |-> "network"]
        ELSE IF svc.kind = "httpError" THEN [kind |-> "throws", error |-> "status"]
        ELSE IF svc.kind = "silent" THEN [kind |-> "pending"]
        ELSE [kind |-> "returns",
              text |-> IF svc.document THEN Trim(svc.text) ELSE <<>>,
              pageCount |-> IF svc.document THEN svc.pages ELSE 0]
  IN [result |-> settle,
      cachedConfig |-> cfg.cachedConfig,
      authClientPromise |-> IF cfg.threw THEN promise ELSE client]

\* ------------------------------------------------------------------------
\* Ingest route: POST after extractPdfText
\* ------------------------------------------------------------------------

OcrProvider == "documentai"

\* let text, needsOcr, message, ocrSummary
InitialLocals(parsed) ==
  [text |-> parsed.text,
   needsOcr |-> requiresOcrFallback(parsed.text),
   message |-> IF requiresOcrFallback(parsed.text)
                 THEN "Embedded text insufficient. OCR fallback required."
                 ELSE UNDEFINED,
   ocrSummary |-> UNDEFINED]

\* variant: an OCR result without text is summarised like a failed call
OcrFallbackEmptyAsFailure(locals, ocr) ==
  IF ocr.kind = "throws" \/ Len(ocr.text) = 0
    THEN [locals EXCEPT
            !.ocrSummary = [provider |-> OcrProvider, success |-> FALSE, pageCount |-> 0],
            !.message = "OCR fallback failed. Please try again later."]
    ELSE [text |-> ocr.text,
          needsOcr |-> FALSE,
          message |-> "Text extracted via Document AI OCR.",
          ocrSummary |-> [provider |-> OcrProvider, success |-> TRUE,
                          pageCount |-> ocr.pageCount]]

\* variant: a failed OCR call downgrades the text to the empty text
OcrFallbackDropsText(locals, ocr) ==
  IF ocr.kind = "throws"
    THEN [locals EXCEPT
            !.text = <<>>,
            !.ocrSummary = [provider |-> OcrProvider, success |-> FALSE, pageCount |-> 0],
            !.message = "OCR fallback failed. Please try again later."]
  ELSE IF Len(ocr.text) > 0
    THEN [text |-> ocr.text,
          needsOcr |-> FALSE,
          message |-> "Text extracted via Document AI OCR.",
          ocrSummary |-> [provider |-> OcrProvider, success |-> TRUE,
                          pageCount |-> ocr.pageCount]]
  ELSE [locals EXCEPT
          !.ocrSummary = [provider |-> OcrProvider, success |-> FALSE,
                          pageCount |-> ocr.pageCount],
          !.message = "Document AI OCR did not detect readable text."]

\* variant: whatever text the OCR call returns replaces the primary text
OcrFallbackAcceptsAny(locals, ocr) ==
  IF ocr.kind = "throws"
    THEN [locals EXCEPT
            !.ocrSummary = [provider |-> OcrProvider, success |-> FALSE, pageCount |-> 0],
            !.message = "OCR fallback failed. Please try again later."]
    ELSE [text |-> ocr.text,
          needsOcr |-> FALSE,
          message |-> "Text extracted via Document AI OCR.",
          ocrSummary |-> [provider |-> OcrProvider,
                          success |-> Len(ocr.text) > 0,
                          pageCount |-> ocr.pageCount]]

\* the try/catch around `await runDocumentAiOcr(buffer)`
OcrFallback(locals, ocr) ==
  IF ocr.kind = "throws"
    THEN [locals EXCEPT
            !.ocrSummary = [provider |-> OcrProvider, success |-> FALSE, pageCount |-> 0],
            !.message = "OCR fallback failed. Please try again later."]
  ELSE IF Len(ocr.text) > 0
    THEN [text |-> ocr.text,
          needsOcr |-> FALSE,
          message |-> "Text extracted via Document AI OCR.",
          ocrSummary |-> [provider |-> OcrProvider,
                          success |-> Len(ocr.text) > 0,
                          pageCount |-> ocr.pageCount]]
  ELSE [locals EXCEPT
          !.ocrSummary = [provider |-> OcrProvider,
                          success |-> Len(ocr.text) > 0,
                          pageCount |-> ocr.pageCount],
          !.message = "Document AI OCR did not detect readable text."]

\* variant: a successful OCR run overwrites the page count of the metadata
IngestResponseOcrPages(parsed, locals) ==
  [status |-> 200,
   metadata |-> IF locals.message = "Text extracted via Document AI OCR."
                  THEN [parsed.metadata EXCEPT !.pageCount = locals.ocrSummary.pageCount]
                  ELSE parsed.metadata,
   needsOcr |-> locals.needsOcr,
   sections |-> normalizePdfText(locals.text),
   ocr |-> locals.ocrSummary,
   message |-> locals.message]

\* const response: IngestResponse = {...}; NextResponse.json(response)
IngestResponse(parsed, locals) ==
  [status |-> 200,
   metadata |-> parsed.metadata,
   needsOcr |-> locals.needsOcr,
   sections |-> normalizePdfText(locals.text),
   ocr |-> locals.ocrSummary,
   message |-> locals.message]

ErrorResponse(status, error) == [status |-> status, error |-> error]

NoResponse == [status |-> 0]

\* ------------------------------------------------------------------------
\* agent-ingest: resolvePdfContent
\* ------------------------------------------------------------------------

\* the kinds of value toPdfBlob turns into a Blob
BlobSources == {"Blob", "Buffer", "ArrayBuffer", "ArrayBufferView"}

\* toPdfBlob
toPdfBlob(fileLike) ==
  IF fileLike \in BlobSources
    THEN [threw |-> FALSE, blob |-> fileLike]
    ELSE [threw |-> TRUE]

\* a sections property: left out, or an array of sections
NoSections == [given |-> FALSE]
SectionArray(items) == [given |-> TRUE, items |-> items]

\* variant: any array counts, also the empty one
HasSectionsGiven(sections) ==
  sections.given

\* pdf_sections && pdf_sections.length > 0
HasSections(sections) ==
  sections.given /\ Len(sections.items) > 0

\* a ?? b
Coalesce(a, b) == IF a # UNDEFINED THEN a ELSE b

EmptyObject == "{}"

\* variant: the payload is returned whatever its sections
callIngestApiUnchecked(answer) ==
  IF answer.kind = "ok"
    THEN [kind |-> "returns", payload |-> answer.payload]
    ELSE [kind |-> "throws"]

\* callIngestApi from the settlement of fetchImpl on
callIngestApiFetched(answer) ==
  IF answer.kind = "rejects" THEN [kind |-> "throws"]
  ELSE IF answer.kind = "notOk" THEN [kind |-> "throws"]
  ELSE IF answer.kind = "badJson" THEN [kind |-> "throws"]
  ELSE IF ~HasSections(answer.payload.sections) THEN [kind |-> "throws"]
  ELSE [kind |-> "returns", payload |-> answer.payload]

\* resolvePdfContent up to its first await: it settles, or a request is made
\* and the call is suspended
resolvePdfContentStart(input) ==
  IF HasSections(input.pdf_sections)
    THEN [kind |-> "returns",
          value |-> [sections |-> input.pdf_sections,
                     metadata |-> Coalesce(input.metadata, EmptyObject)]]
  ELSE IF input.pdfFile = UNDEFINED
    THEN [kind |-> "throws"]
  ELSE IF toPdfBlob(input.pdfFile).threw
    THEN [kind |-> "throws"]
  ELSE [kind |-> "fetch",
        request |-> [method |-> "POST", file |-> toPdfBlob(input.pdfFile).blob]]

\* resolvePdfContent from the settlement of callIngestApi on
resolvePdfContentFetched(input, answer) ==
  LET ingestResponse == callIngestApiFetched(answer)
  IN IF ingestResponse.kind = "throws" THEN [kind |-> "throws"]
     ELSE [kind |-> "returns",
           value |-> [sections |-> ingestResponse.payload.sections,
                      metadata |-> Coalesce(input.metadata,
                                            Coalesce(ingestResponse.payload.metadata,
                                                     EmptyObject))]]

\* ------------------------------------------------------------------------
\* Sample documents and answers
\* ------------------------------------------------------------------------

\* a stray page footer: 8 non-white-space characters
RawMarkerOnly ==
  <<" ", "-", "-", " ", "1", " ", "o", "f", " ", "1", " ", "-", "-", "\n">>

\* 24 non-white-space characters in 28
RawAlmost ==
  <<"N", "o", "t", "e", "s", ":", "\n", "a", "l", "p", "h", "a", " ", "b",
    "e", "t", "a", " ", "g", "a", "m", "m", "a", " ", "d", "e", "l", "t",
    "\n">>

\* 25 non-white-space characters
RawEnough ==
  <<"\n", "N", "o", "t", "e", "s", ":", "\n", "a", "l", "p", "h", "a", " ",
    "b", "e", "t", "a", " ", "g", "a", "m", "m", "a", " ", "d", "e", "l",
    "t", "a">>

\* white space only
OcrBlank ==
  <<" ", "\n">>

\* 7 non-white-space characters
OcrShort ==
  <<"O", "C", "R", " ", "t", "e", "x", "t">>

\* 32 non-white-space characters
OcrLong ==
  <<"S", "C", "A", "N", " ", "R", "E", "S", "U", "L", "T", "\n", "r", "e",
    "c", "o", "v", "e", "r", "e", "d", " ", "w", "o", "r", "d", "s", " ",
    "o", "f", " ", "t", "h", "e", " ", "p", "a", "g", "e", "\n">>

\* file names
NamePdfUpper ==
  <<"s", "c", "a", "n", ".", "P", "D", "F">>

NameTxt ==
  <<"n", "o", "t", "e", "s", ".", "t", "x", "t">>

NameBlob ==
  <<"b", "l", "o", "b">>

\* what formData.get("file") can yield
Uploads ==
  { [isFile |-> FALSE, type |-> "", name |-> <<>>],
    [isFile |-> TRUE, type |-> "text/plain", name |-> NameTxt],
    [isFile |-> TRUE, type |-> "application/pdf", name |-> NameBlob],
    [isFile |-> TRUE, type |-> "", name |-> NamePdfUpper] }

\* what parser.getText() and parser.getInfo() can do
ParserAnswers ==
  { [getText |-> "throws", getInfo |-> "ok", destroy |-> d,
     text |-> <<>>, title |-> UNDEFINED, total |-> 0] : d \in {"ok", "throws"} }
  \cup
  { [getText |-> "ok", getInfo |-> "throws", destroy |-> "ok",
     text |-> RawEnough, title |-> UNDEFINED, total |-> 0],
    [getText |-> "ok", getInfo |-> "ok", destroy |-> "throws",
     text |-> RawEnough, title |-> "Report", total |-> 5] }
  \cup
  { [getText |-> "ok", getInfo |-> "ok", destroy |-> "ok",
     text |-> t, title |-> "Report", total |-> 5] :
      t \in {<<>>, RawMarkerOnly, RawAlmost, RawEnough} }

\* what the token request and the Document AI endpoint can do
ServiceAnswers ==
  { [kind |-> k, document |-> FALSE, text |-> <<>>, pages |-> 0] :
      k \in {"noToken", "networkError", "httpError", "silent", "ok"} }
  \cup
  { [kind |-> "ok", document |-> TRUE, text |-> OcrBlank, pages |-> 2],
    [kind |-> "ok", document |-> TRUE, text |-> OcrShort, pages |-> 3],
    [kind |-> "ok", document |-> TRUE, text |-> OcrLong, pages |-> 1] }

NotAsked == [kind |-> "notAsked", document |-> FALSE, text |-> <<>>, pages |-> 0]

\* ------------------------------------------------------------------------
\* State
\* ------------------------------------------------------------------------

NumRequests == 2
Requests == 1..NumRequests

VARIABLES
  \* module state of pdf-parser and document-ai-ocr, and the process
  \* environment
  workerConfigured,   \* let workerConfigured
  cachedConfig,       \* let cachedConfig (TRUE: a config object)
  authClientPromise,  \* "none" (null), or the way the kept promise settles
  envIds,             \* GOOGLE_CLOUD_PROJECT_ID and _PROCESSOR_ID are set
  \* one invocation of POST per request
  pc,                 \* the await the invocation is suspended at
  upload,             \* formData.get("file")
  parser,             \* extractPdfText: a PDFParse instance was created
  parsed,             \* const parsed
  locals,             \* let text, needsOcr, message, ocrSummary
  ocrEnv,             \* what the environment answers to this request's OCR call
  ocrCall,            \* the way the promise of runDocumentAiOcr settles
  ocrCalls,           \* number of calls of runDocumentAiOcr
  extractCalls,       \* number of calls of extractPdfText
  response,           \* the response returned by POST
  \* a call of normalizePdfText on a composed text
  docLines, docText, docSections, docPhase,
  \* a call of requiresOcrFallback on a composed text
  probeText, probeVerdict, probePhase,
  \* repeated calls of normalizePdfText
  lastIndex,          \* lastIndex of the three RegExp objects of pdf-normalizer
  callLog,            \* the calls made: argument and returned sections
  \* repeated calls of extractPdfText
  parseLog,           \* the calls made: what pdf-parse did and the settlement
  \* a call of resolvePdfContent
  resolveInput,       \* the argument input
  resolvePc,          \* "idle", suspended at "fetch", or "done"
  resolvePosts,       \* the requests made through fetchImpl
  resolveFetch,       \* what the request was answered
  resolveResult,      \* the way the returned promise settles
  \* a call of sanitizeText
  sanitizeValue,      \* the argument value
  sanitizeResult,     \* the returned string
  sanitizePhase,      \* "compose" or "done"
  \* a call of runWorkflow
  workflowPc,         \* "idle", awaiting "resolvePdfContent", "stream" or "threw"
  modelRequests       \* the requests made through openai.responses.stream

sharedVars == <<workerConfigured, cachedConfig, authClientPromise, envIds>>
requestVars == <<pc, upload, parser, parsed, locals, ocrEnv, ocrCall, ocrCalls, extractCalls, response>>
ingestVars == <<workerConfigured, cachedConfig, authClientPromise, envIds,
                pc, upload, parser, parsed, locals, ocrEnv, ocrCall, ocrCalls, extractCalls, response>>
docVars == <<docLines, docText, docSections, docPhase>>
probeVars == <<probeText, probeVerdict, probePhase>>
repeatVars == <<lastIndex, callLog>>
parseVars == <<parseLog>>
resolveVars == <<resolveInput, resolvePc, resolvePosts, resolveFetch, resolveResult>>
sanitizeVars == <<sanitizeValue, sanitizeResult, sanitizePhase>>
workflowVars == <<workflowPc, modelRequests>>
vars == <<workerConfigured, cachedConfig, authClientPromise, envIds,
          pc, upload, parser, parsed, locals, ocrEnv, ocrCall, ocrCalls, extractCalls, response,
          docLines, docText, docSections, docPhase,
          probeText, probeVerdict, probePhase,
          lastIndex, callLog, parseLog,
          resolveInput, resolvePc, resolvePosts, resolveFetch, resolveResult,
          sanitizeValue, sanitizeResult, sanitizePhase,
          workflowPc, modelRequests>>

\* what the actions of one part leave alone
nonIngestVars == <<docVars, probeVars, repeatVars, parseVars, resolveVars, sanitizeVars, workflowVars>>
nonDocVars == <<ingestVars, probeVars, repeatVars, parseVars, resolveVars, sanitizeVars, workflowVars>>
nonProbeVars == <<ingestVars, docVars, repeatVars, parseVars, resolveVars, sanitizeVars, workflowVars>>
nonRepeatVars == <<ingestVars, docVars, probeVars, parseVars, resolveVars, sanitizeVars, workflowVars>>
nonParseVars == <<cachedConfig, authClientPromise, envIds, requestVars,
                  docVars, probeVars, repeatVars, resolveVars, sanitizeVars, workflowVars>>
nonResolveVars == <<ingestVars, docVars, probeVars, repeatVars, parseVars, sanitizeVars, workflowVars>>
nonSanitizeVars == <<ingestVars, docVars, probeVars, repeatVars, parseVars, resolveVars,
                     workflowVars>>
nonWorkflowVars == <<ingestVars, docVars, probeVars, repeatVars, parseVars, sanitizeVars>>

NoUpload == [isFile |-> FALSE, type |-> UNDEFINED, name |-> <<>>]
NoLocals == [text |-> <<>>, needsOcr |-> FALSE, message |-> UNDEFINED, ocrSummary |-> UNDEFINED]
NoEnv == [client |-> "resolved", service |-> NotAsked]
NoCall == [kind |-> "none"]

IngestInit ==
  /\ workerConfigured = FALSE
  /\ cachedConfig = FALSE
  /\ authClientPromise = "none"
  /\ envIds \in BOOLEAN
  /\ pc = [r \in Requests |-> "idle"]
  /\ upload = [r \in Requests |-> NoUpload]
  /\ parser = [r \in Requests |-> FALSE]
  /\ parsed = [r \in Requests |-> EmptyParsed]
  /\ locals = [r \in Requests |-> NoLocals]
  /\ ocrEnv = [r \in Requests |-> NoEnv]
  /\ ocrCall = [r \in Requests |-> NoCall]
  /\ ocrCalls = [r \in Requests |-> 0]
  /\ extractCalls = [r \in Requests |-> 0]
  /\ response = [r \in Requests |-> NoResponse]

DocInit ==
  /\ docLines = <<>>
  /\ docText = <<>>
  /\ docSections = <<>>
  /\ docPhase = "compose"

ProbeInit ==
  /\ probeText = <<>>
  /\ probeVerdict = FALSE
  /\ probePhase = "compose"

\* ------------------------------------------------------------------------
\* Ingest route: POST, one action per resumption
\* ------------------------------------------------------------------------

\* return NextResponse.json(...)
Respond(r, resp) ==
  /\ response' = [response EXCEPT ![r] = resp]
  /\ pc' = [pc EXCEPT ![r] = "responded"]

\* POST is invoked and suspends at `await request.formData()`
Receive(r) ==
  /\ pc[r] = "idle"
  /\ pc' = [pc EXCEPT ![r] = "formData"]
  /\ UNCHANGED <<sharedVars, upload, parser, parsed, locals, ocrEnv, ocrCall, ocrCalls, extractCalls, response>>
  /\ UNCHANGED nonIngestVars

\* formData() resolves: the two validations, then `await file.arrayBuffer()`
FormDataResolved(r, file) ==
  /\ pc[r] = "formData"
  /\ upload' = [upload EXCEPT ![r] = file]
  /\ IF ~file.isFile
       THEN Respond(r, ErrorResponse(400, "Expected a PDF file upload under the file field."))
     ELSE IF ~isPdf(file)
       THEN Respond(r, ErrorResponse(400, "Only PDF uploads are supported."))
     ELSE /\ pc' = [pc EXCEPT ![r] = "arrayBuffer"]
          /\ UNCHANGED response
  /\ UNCHANGED <<sharedVars, parser, parsed, locals, ocrEnv, ocrCall, ocrCalls, extractCalls>>
  /\ UNCHANGED nonIngestVars

\* formData() rejects: the outer catch
FormDataRejected(r) ==
  /\ pc[r] = "formData"
  /\ Respond(r, ErrorResponse(500, "Unable to ingest PDF. Please try again."))
  /\ UNCHANGED <<sharedVars, upload, parser, parsed, locals, ocrEnv, ocrCall, ocrCalls, extractCalls>>
  /\ UNCHANGED nonIngestVars

\* arrayBuffer() resolves: extractPdfText is called and runs up to
\* `await parser.getText()`; setWorkerOk is what PDFParse.setWorker does if
\* it is called
ArrayBufferResolved(r, setWorkerOk) ==
  /\ pc[r] = "arrayBuffer"
  /\ workerConfigured => setWorkerOk
  /\ LET w == ensureWorkerConfigured(workerConfigured, setWorkerOk)
     IN /\ workerConfigured' = w.workerConfigured
        /\ parser' = [parser EXCEPT ![r] = ~w.threw]
  /\ pc' = [pc EXCEPT ![r] = "extractPdfText"]
  /\ extractCalls' = [extractCalls EXCEPT ![r] = @ + 1]
  /\ UNCHANGED <<cachedConfig, authClientPromise, envIds>>
  /\ UNCHANGED <<upload, parsed, locals, ocrEnv, ocrCall, ocrCalls, response>>
  /\ UNCHANGED nonIngestVars

\* variant: a failed arrayBuffer() is answered like a document without text
ArrayBufferRejectedAsEmpty(r) ==
  /\ pc[r] = "arrayBuffer"
  /\ Respond(r, IngestResponse(EmptyParsed, NoLocals))
  /\ UNCHANGED <<sharedVars, upload, parser, parsed, locals, ocrEnv, ocrCall, ocrCalls, extractCalls>>
  /\ UNCHANGED nonIngestVars

\* arrayBuffer() rejects: the outer catch
ArrayBufferRejected(r) ==
  /\ pc[r] = "arrayBuffer"
  /\ Respond(r, ErrorResponse(500, "Unable to ingest PDF. Please try again."))
  /\ UNCHANGED <<sharedVars, upload, parser, parsed, locals, ocrEnv, ocrCall, ocrCalls, extractCalls>>
  /\ UNCHANGED nonIngestVars

\* the answers of pdf-parse that a call of extractPdfText can get
AnswersFor(created) ==
  IF created THEN ParserAnswers
  ELSE {a \in ParserAnswers : a.getText = "throws"}

\* the answers of the environment that an OCR call started now can get;
\* an answer that neither this call nor a call on fresh module state would
\* ask for is left at its default
EnvsFor(promise) ==
  {env \in [client : {"resolved", "rejected"}, service : ServiceAnswers \cup {NotAsked}] :
     /\ ~envIds => env.client = "resolved"
     /\ (env.service = NotAsked) <=>
          ~(envIds /\ (env.client = "resolved" \/ promise = "resolved"))}

\* extractPdfText resolves with sufficient text: the response is built
ExtractResolvedSufficient(r, answer) ==
  /\ pc[r] = "extractPdfText"
  /\ LET settled == extractPdfText(parser[r], answer)
         p == settled.value
         l == InitialLocals(p)
     IN /\ settled.kind = "resolves"
        /\ ~l.needsOcr
        /\ parsed' = [parsed EXCEPT ![r] = p]
        /\ locals' = [locals EXCEPT ![r] = l]
        /\ Respond(r, IngestResponse(p, l))
  /\ UNCHANGED <<sharedVars, upload, parser, ocrEnv, ocrCall, ocrCalls, extractCalls>>
  /\ UNCHANGED nonIngestVars

\* extractPdfText resolves with insufficient text: runDocumentAiOcr is
\* called and runs up to its first await (loadConfig, getAuthHeaders)
ExtractResolvedInsufficient(r, answer, env) ==
  /\ pc[r] = "extractPdfText"
  /\ LET settled == extractPdfText(parser[r], answer)
         p == settled.value
         l == InitialLocals(p)
         call == runDocumentAiOcr(cachedConfig, authClientPromise,
                                  [ids |-> envIds, client |-> env.client,
                                   service |-> env.service])
     IN /\ settled.kind = "resolves"
        /\ l.needsOcr
        /\ parsed' = [parsed EXCEPT ![r] = p]
        /\ locals' = [locals EXCEPT ![r] = l]
        /\ ocrEnv' = [ocrEnv EXCEPT ![r] = env]
        /\ ocrCall' = [ocrCall EXCEPT ![r] = call.result]
        /\ ocrCalls' = [ocrCalls EXCEPT ![r] = @ + 1]
        /\ cachedConfig' = call.cachedConfig
        /\ authClientPromise' = call.authClientPromise
  /\ pc' = [pc EXCEPT ![r] = "runDocumentAiOcr"]
  /\ UNCHANGED <<workerConfigured, envIds, upload, parser, extractCalls, response>>
  /\ UNCHANGED nonIngestVars

\* the promise of runDocumentAiOcr settles: try/catch, then the response
OcrSettled(r) ==
  /\ pc[r] = "runDocumentAiOcr"
  /\ ocrCall[r].kind \in {"returns", "throws"}
  /\ LET l == OcrFallback(locals[r], ocrCall[r])
     IN /\ locals' = [locals EXCEPT ![r] = l]
        /\ Respond(r, IngestResponse(parsed[r], l))
  /\ UNCHANGED <<sharedVars, upload, parser, parsed, ocrEnv, ocrCall, ocrCalls, extractCalls>>
  /\ UNCHANGED nonIngestVars

\* everything one invocation of POST can do next
RequestStep(r) ==
  \/ Receive(r)
  \/ \E file \in Uploads : FormDataResolved(r, file)
  \/ FormDataRejected(r)
  \/ \E setWorkerOk \in BOOLEAN : ArrayBufferResolved(r, setWorkerOk)
  \/ ArrayBufferRejected(r)
  \/ \E answer \in AnswersFor(parser[r]) : ExtractResolvedSufficient(r, answer)
  \/ \E answer \in AnswersFor(parser[r]) :
       \E env \in EnvsFor(authClientPromise) :
         ExtractResolvedInsufficient(r, answer, env)
  \/ OcrSettled(r)

Next == \E r \in Requests : RequestStep(r)

\* module load of pdf-normalizer: the RegExp objects are created
RepeatInit ==
  /\ lastIndex = ZeroLastIndex
  /\ callLog = <<>>

ParseInit == parseLog = <<>>

NoInput == [pdf_sections |-> [given |-> FALSE], metadata |-> UNDEFINED, pdfFile |-> UNDEFINED]
NotFetched == [kind |-> "none"]

ResolveInit ==
  /\ resolveInput = NoInput
  /\ resolvePc = "idle"
  /\ resolvePosts = <<>>
  /\ resolveFetch = NotFetched
  /\ resolveResult = [kind |-> "none"]

SanitizeInit ==
  /\ sanitizeValue = <<>>
  /\ sanitizeResult = <<>>
  /\ sanitizePhase = "compose"

WorkflowInit ==
  /\ workflowPc = "idle"
  /\ modelRequests = <<>>

Init ==
  /\ IngestInit /\ DocInit /\ ProbeInit /\ RepeatInit /\ ParseInit /\ ResolveInit
  /\ SanitizeInit /\ WorkflowInit

Spec == Init /\ [][Next]_vars

\* the initial state with the environment variables set
IdleInit == Init /\ envIds = TRUE

\* ------------------------------------------------------------------------
\* normalizePdfText on composed texts
\* ------------------------------------------------------------------------

MaxDocLines == 4

LineBlank == <<>>
LineMarker == <<"-", "-", " ", "1", " ", "o", "f", " ", "2", " ", "-", "-">>
LineMarkerTight == <<" ", "-", "-", "3", " ", "O", "F", " ", "1", "0", "-", "-">>
LineCaps == <<"B", "I", "O", "L", "O", "G", "Y", " ", "U", "N", "I", "T">>
LineColon == <<"n", "o", "t", "e", "s", ":">>
LinePlain == <<"p", "l", "a", "i", "n", " ", "b", "o", "d", "y", " ", "t", "e", "x", "t", ".">>
LineBullet == <<BULLET, " ", "i", "t", "e", "m", " ", "o", "n", "e">>
LineGlyphs == <<"-", "*">>
LineNumbered == <<"1", ".", " ", "F", "o", "o">>
LineNumberedParen == <<"2", ")", NBSP, "B", "a", "r", " ", " ">>

\* a page marker between two blank lines, as it stands between two pages
LinesPageGap == <<"\n">> \o LineMarker \o <<"\n">>

\* a heading line and its body line
LinesSection == LineCaps \o <<"\n">> \o LinePlain

LinePool ==
  {LineBlank, LineMarker, LineMarkerTight, LineCaps, LineColon,
   LinePlain, LineBullet, LineGlyphs, LineNumbered, LineNumberedParen,
   LinesPageGap, LinesSection}

LineBreaks == {<<"\n">>, <<"\r", "\n">>}

\* the lines, each but the last followed by the line break
RECURSIVE ComposeText(_, _)
ComposeText(lines, eol) ==
  IF lines = <<>> THEN <<>>
  ELSE IF Len(lines) = 1 THEN lines[1]
  ELSE lines[1] \o eol \o ComposeText(Tail(lines), eol)

AppendLine(line) ==
  /\ docPhase = "compose"
  /\ Len(docLines) < MaxDocLines
  /\ docLines' = Append(docLines, line)
  /\ UNCHANGED <<docText, docSections, docPhase>>
  /\ UNCHANGED nonDocVars

Normalize(eol) ==
  /\ docPhase = "compose"
  /\ docText' = ComposeText(docLines, eol)
  /\ docSections' = normalizePdfText(docText')
  /\ docPhase' = "done"
  /\ UNCHANGED docLines
  /\ UNCHANGED nonDocVars

DocNext ==
  \/ \E line \in LinePool : AppendLine(line)
  \/ \E eol \in LineBreaks : Normalize(eol)

DocSpec == IdleInit /\ [][DocNext]_vars

\* ------------------------------------------------------------------------
\* sanitizeText called on texts composed of single characters
\* ------------------------------------------------------------------------

MaxValueLength == 6

ValueChars == {"a", " ", "\t", "\n", "\r", NBSP}

AppendChar(c) ==
  /\ sanitizePhase = "compose"
  /\ Len(sanitizeValue) < MaxValueLength
  /\ sanitizeValue' = Append(sanitizeValue, c)
  /\ UNCHANGED <<sanitizeResult, sanitizePhase>>
  /\ UNCHANGED nonSanitizeVars

SanitizeCalled ==
  /\ sanitizePhase = "compose"
  /\ sanitizeResult' = sanitizeText(sanitizeValue)
  /\ sanitizePhase' = "done"
  /\ UNCHANGED sanitizeValue
  /\ UNCHANGED nonSanitizeVars

SanitizeNext ==
  \/ \E c \in ValueChars : AppendChar(c)
  \/ SanitizeCalled

SanitizeSpec == IdleInit /\ [][SanitizeNext]_vars

\* ------------------------------------------------------------------------
\* normalizePdfText called on texts composed of heading-like lines
\* ------------------------------------------------------------------------

MaxHeadLines == 3

LineEighty == [i \in 1..HeadingMaxLength |-> "A"]
LineLong == [i \in 1..(HeadingMaxLength + 1) |-> "A"]
LineDashColon == <<"-", " ", "G", "o", "a", "l", "s", ":">>
LineWord == <<"O", "v", "e", "r", "v", "i", "e", "w">>
LineTitle == <<"C", "e", "l", "l", " ", "B", "i", "o", "l", "o", "g", "y", " ",
               "a", "n", "d", " ", "G", "e", "n", "e", "t", "i", "c", "s">>
LineYear == <<"2", "0", "2", "4", ":">>
LineYears == <<"2", "0", "2", "4", " ", "2", "0", "2", "5">>
LineShout == <<"S", "T", "O", "P", " ", "N", "O", "W", "!">>
LineNineTenths == <<"A", "B", "C", "D", "E", "F", "G", "H", "I", "j", ".">>
LineSixSevenths == <<"H", "E", "L", "L", "O", " ", "W", "o", ".">>
LineThreeFifths == <<"a", "B", "C", " ", "d", "E", "+">>
LineTwoFifths == <<"a", "B", "c", " ", "d", "E", "+">>
LineAcronym == <<"N", "A", "S", "A", " ", " ", "L", "A", "U", "N", "C", "H", " ", "O", "F", " ", "2", "0", "2", "4">>

HeadPool ==
  {LineBlank, LineMarker, LineGlyphs, LineCaps, LinePlain, LineColon,
   LineNumberedParen, LineEighty, LineLong, LineDashColon, LineWord,
   LineTitle, LineYear, LineYears,
   LineShout, LineNineTenths, LineSixSevenths, LineThreeFifths, LineTwoFifths,
   LineAcronym}

AppendHeadLine(line) ==
  /\ Len(docLines) < MaxHeadLines
  /\ AppendLine(line)

HeadNext ==
  \/ \E line \in HeadPool : AppendHeadLine(line)
  \/ \E eol \in LineBreaks : Normalize(eol)

HeadSpec == IdleInit /\ [][HeadNext]_vars

\* ------------------------------------------------------------------------
\* requiresOcrFallback on composed texts
\* ------------------------------------------------------------------------

MaxProbeSolid == 26
MaxProbeSpaces == 1

ProbeAppendSolid ==
  /\ probePhase = "compose"
  /\ Len(Compact(probeText)) < MaxProbeSolid
  /\ probeText' = Append(probeText, "x")
  /\ UNCHANGED <<probeVerdict, probePhase>>
  /\ UNCHANGED nonProbeVars

ProbeAppendSpace(c) ==
  /\ probePhase = "compose"
  /\ Len(probeText) - Len(Compact(probeText)) < MaxProbeSpaces
  /\ probeText' = Append(probeText, c)
  /\ UNCHANGED <<probeVerdict, probePhase>>
  /\ UNCHANGED nonProbeVars

ProbeCheck ==
  /\ probePhase = "compose"
  /\ probeVerdict' = requiresOcrFallback(probeText)
  /\ probePhase' = "done"
  /\ UNCHANGED probeText
  /\ UNCHANGED nonProbeVars

ProbeNext ==
  \/ ProbeAppendSolid
  \/ \E c \in {" ", "\t", "\n", NBSP} : ProbeAppendSpace(c)
  \/ ProbeCheck

ProbeSpec == IdleInit /\ [][ProbeNext]_vars

\* ------------------------------------------------------------------------
\* normalizePdfText called repeatedly
\* ------------------------------------------------------------------------

MaxCalls == 3

RepeatTexts ==
  { ComposeText(<<LineMarker>>, <<"\n">>),
    ComposeText(<<LineNumbered>>, <<"\n">>),
    ComposeText(<<LineCaps, LinePlain>>, <<"\n">>),
    ComposeText(<<LineMarker, LinePlain, LineMarkerTight>>, <<"\n">>),
    ComposeText(<<LineBullet, LineNumberedParen>>, <<"\r", "\n">>),
    ComposeText(<<LinePlain, LineBlank, LineColon, LineGlyphs>>, <<"\n">>) }

\* one call of normalizePdfText: it finds the RegExp objects as the calls
\* before it left them
Call(text) ==
  /\ Len(callLog) < MaxCalls
  /\ LET r == normalizePdfTextAt(lastIndex, text)
     IN /\ lastIndex' = r.lastIndex
        /\ callLog' = Append(callLog, [text |-> text, sections |-> r.sections])
  /\ UNCHANGED nonRepeatVars

RepeatNext == \E text \in RepeatTexts : Call(text)

RepeatSpec == IdleInit /\ [][RepeatNext]_vars

\* ------------------------------------------------------------------------
\* extractPdfText called repeatedly
\* ------------------------------------------------------------------------

MaxParseCalls == 3

\* one call of extractPdfText, from ensureWorkerConfigured to the settlement
\* of the returned promise
ExtractCall(setWorkerOk, answer) ==
  /\ Len(parseLog) < MaxParseCalls
  /\ workerConfigured => setWorkerOk
  /\ LET w == ensureWorkerConfigured(workerConfigured, setWorkerOk)
     IN /\ answer \in AnswersFor(~w.threw)
        /\ workerConfigured' = w.workerConfigured
        /\ parseLog' = Append(parseLog,
                              [parser |-> ~w.threw, answer |-> answer,
                               cleanup |-> destroyParser(~w.threw, answer),
                               settled |-> extractPdfText(~w.threw, answer)])
  /\ UNCHANGED nonParseVars

ParseNext ==
  \E setWorkerOk \in BOOLEAN : \E answer \in ParserAnswers :
    ExtractCall(setWorkerOk, answer)

ParseSpec == IdleInit /\ [][ParseNext]_vars

\* ------------------------------------------------------------------------
\* Properties of the ingest route (Spec)
\* ------------------------------------------------------------------------

NonWhiteSpaceCount(text) ==
  Cardinality({i \in 1..Len(text) : text[i] \notin WhiteSpace})

Resolved(r) == pc[r] = "responded" /\ response[r].status = 200

\* the OCR call of r has returned (not thrown) and POST has gone on
OcrReturned(r) ==
  /\ pc[r] = "responded"
  /\ ocrCalls[r] = 1
  /\ ocrCall[r].kind = "returns"

OcrThrew(r) ==
  /\ pc[r] = "responded"
  /\ ocrCalls[r] = 1
  /\ ocrCall[r].kind = "throws"

\* C1: primary text insufficient and OCR returns non-empty text: the response
\* has status 200, the final text is the OCR text and the sections are its
\* normalization, needsOcr is false, the ocr summary reports success with the
\* OCR page count, and the metadata is the primary extractor's metadata.
C1_OcrTextReplacesPrimaryText ==
  \A r \in Requests :
    (OcrReturned(r) /\ Len(ocrCall[r].text) > 0)
      => /\ response[r].status = 200
         /\ locals[r].text = ocrCall[r].text
         /\ response[r].sections = normalizePdfText(ocrCall[r].text)
         /\ response[r].needsOcr = FALSE
         /\ response[r].ocr = [provider |-> "documentai", success |-> TRUE,
                               pageCount |-> ocrCall[r].pageCount]
         /\ response[r].metadata = parsed[r].metadata

\* an OCR success whose page count differs from the primary one and whose
\* sections differ from those of the primary text
C1_Witness ==
  \E r \in Requests :
    /\ OcrReturned(r) /\ Len(ocrCall[r].text) > 0
    /\ NonWhiteSpaceCount(parsed[r].text) \in 1..24
    /\ ocrCall[r].pageCount # parsed[r].metadata.pageCount
    /\ response[r].sections # normalizePdfText(parsed[r].text)

\* C2: primary text insufficient and OCR returns empty text: status 200, the
\* final text is the primary text and the sections are its normalization,
\* needsOcr stays true, the ocr summary reports no success with the OCR page
\* count, and the message says that OCR found no readable text.
C2_EmptyOcrKeepsPrimaryText ==
  \A r \in Requests :
    (OcrReturned(r) /\ Len(ocrCall[r].text) = 0)
      => /\ response[r].status = 200
         /\ locals[r].text = parsed[r].text
         /\ response[r].sections = normalizePdfText(parsed[r].text)
         /\ response[r].needsOcr = TRUE
         /\ response[r].ocr = [provider |-> "documentai", success |-> FALSE,
                               pageCount |-> ocrCall[r].pageCount]
         /\ response[r].message = "Document AI OCR did not detect readable text."

\* an empty OCR result with pages, for a primary text that has sections
C2_Witness ==
  \E r \in Requests :
    /\ OcrReturned(r) /\ Len(ocrCall[r].text) = 0
    /\ ocrCall[r].pageCount > 0
    /\ response[r].sections # <<>>

\* C3: the OCR call throws (config, auth client, token, network, status):
\* status 200, the final text is the primary text, needsOcr stays true, the
\* ocr summary is {success: false, pageCount: 0}, with the failure message.
C3_OcrFailureIsNotPropagated ==
  \A r \in Requests :
    OcrThrew(r)
      => /\ response[r].status = 200
         /\ locals[r].text = parsed[r].text
         /\ response[r].sections = normalizePdfText(parsed[r].text)
         /\ response[r].needsOcr = TRUE
         /\ response[r].ocr = [provider |-> "documentai", success |-> FALSE,
                               pageCount |-> 0]
         /\ response[r].message = "OCR fallback failed. Please try again later."

\* two failed OCR calls with different causes, one with a primary text that
\* has sections
C3_Witness ==
  \E r, q \in Requests :
    /\ OcrThrew(r) /\ OcrThrew(q)
    /\ ocrCall[r].error = "network" /\ ocrCall[q].error = "status"
    /\ response[r].sections # <<>>

\* C4: runDocumentAiOcr is called at most once per request, and exactly when
\* the primary text is insufficient; with sufficient primary text the response
\* carries the primary text, needsOcr false, no ocr summary and no message.
C4_OcrCalledOnceIffInsufficient ==
  \A r \in Requests :
    /\ ocrCalls[r] <= 1
    /\ ocrCalls[r] = 1 <=>
         /\ pc[r] = "runDocumentAiOcr" \/ Resolved(r)
         /\ NonWhiteSpaceCount(parsed[r].text) < 25
    /\ (Resolved(r) /\ NonWhiteSpaceCount(parsed[r].text) >= 25)
         => /\ locals[r].text = parsed[r].text
            /\ response[r].sections = normalizePdfText(parsed[r].text)
            /\ response[r].needsOcr = FALSE
            /\ response[r].ocr = UNDEFINED
            /\ response[r].message = UNDEFINED

\* one request answered from sufficient primary text, another one after an
\* OCR call for a non-empty insufficient text
C4_Witness ==
  \E r, q \in Requests :
    /\ Resolved(r) /\ ocrCalls[r] = 0 /\ NonWhiteSpaceCount(parsed[r].text) >= 25
    /\ Resolved(q) /\ ocrCalls[q] = 1 /\ NonWhiteSpaceCount(parsed[q].text) \in 1..24

\* C5 as stated: in every resolved request with needsOcr = false the final
\* text has at least 25 non-white-space characters.
C5_FinalTextSufficient ==
  \A r \in Requests :
    (Resolved(r) /\ ~response[r].needsOcr)
      => NonWhiteSpaceCount(locals[r].text) >= 25

\* C5 amended: in every resolved request with needsOcr = false the final text
\* is either the primary text with at least 25 non-white-space characters (no
\* OCR call) or the text the OCR call returned, which is only known to be
\* non-empty: it is not checked for sufficiency again.
C5_FinalTextSufficientOrOcr ==
  \A r \in Requests :
    (Resolved(r) /\ ~response[r].needsOcr)
      => /\ response[r].sections = normalizePdfText(locals[r].text)
         /\ \/ /\ ocrCalls[r] = 0
               /\ locals[r].text = parsed[r].text
               /\ NonWhiteSpaceCount(locals[r].text) >= 25
            \/ /\ ocrCalls[r] = 1
               /\ ocrCall[r].kind = "returns"
               /\ locals[r].text = ocrCall[r].text
               /\ NonWhiteSpaceCount(locals[r].text) >= 1

\* needsOcr = false after an OCR text of fewer than 25 characters
C5_Witness ==
  \E r \in Requests :
    /\ Resolved(r) /\ ~response[r].needsOcr
    /\ ocrCalls[r] = 1
    /\ NonWhiteSpaceCount(locals[r].text) < 25

\* a request suspended at `await runDocumentAiOcr(buffer)` whose promise
\* never settles
OcrHangs(r) == pc[r] = "runDocumentAiOcr" /\ ocrCall[r].kind = "pending"

\* a request whose OCR call hangs stays where it is: POST has no other
\* continuation (no timeout) than the settlement of that promise
HangIsPermanent ==
  [][\A r \in Requests : OcrHangs(r) => OcrHangs(r)']_vars

\* C7: every request that reaches the OCR fallback is eventually answered: it
\* is never left waiting for an OCR call that does not settle.
C7_NoRequestWaitsForever ==
  \A r \in Requests : ~OcrHangs(r)

\* the response of r had its OCR call run on fresh module state
FreshResponse(r) ==
  LET call == runDocumentAiOcr(FALSE, "none",
                               [ids |-> envIds, client |-> ocrEnv[r].client,
                                service |-> ocrEnv[r].service])
  IN IF call.result.kind = "pending" THEN NoResponse
     ELSE IngestResponse(parsed[r],
                         OcrFallback(InitialLocals(parsed[r]), call.result))

\* C8: the response of a request is determined by its own upload and by what
\* the collaborators answer for that request, whatever other requests did.
C8_RequestsIndependent ==
  \A r \in Requests :
    (Resolved(r) /\ ocrCalls[r] = 1) => response[r] = FreshResponse(r)

\* ------------------------------------------------------------------------
\* Properties of requiresOcrFallback (ProbeSpec)
\* ------------------------------------------------------------------------

\* C6: requiresOcrFallback(text) is true exactly when text has fewer than 25
\* non-white-space characters; white space never counts.
C6_FallbackIffBelowThreshold ==
  probePhase = "done"
    => (probeVerdict <=> NonWhiteSpaceCount(probeText) < 25)

\* 24 non-white-space characters in a text of 25 characters need the fallback
C6_Witness ==
  /\ probePhase = "done"
  /\ NonWhiteSpaceCount(probeText) = 24
  /\ Len(probeText) = 25
  /\ probeVerdict

\* ------------------------------------------------------------------------
\* Properties of normalizePdfText (DocSpec)
\* ------------------------------------------------------------------------

\* the lines of the sanitized text
SanitizedLines(text) == Split(sanitizeText(text), "\n")

BlankOrMarker(line) == Trim(line) = <<>> \/ PAGE_MARKER_REGEX(Trim(line))

\* C9: normalizePdfText returns no section exactly when every line of the
\* sanitized input is blank or a page marker.
C9_EmptyIffOnlyBlanksAndMarkers ==
  docPhase = "done"
    => LET lines == SanitizedLines(docText)
       IN docSections = <<>> <=> \A i \in 1..Len(lines) : BlankOrMarker(lines[i])

\* a text of page markers and blank lines gives no section
C9_Witness ==
  /\ docPhase = "done"
  /\ docSections = <<>>
  /\ Len(docLines) = MaxDocLines
  /\ \E i \in 1..Len(docLines) : PAGE_MARKER_REGEX(Trim(docLines[i]))

\* C10: every returned section has a body with at least one non-blank line.
C10_BodiesNotBlank ==
  docPhase = "done"
    => \A i \in 1..Len(docSections) :
         /\ Trim(docSections[i].body) # <<>>
         /\ \E j \in 1..Len(Split(docSections[i].body, "\n")) :
              Trim(Split(docSections[i].body, "\n")[j]) # <<>>

\* two sections, the first one emitted inside the loop
C10_Witness ==
  /\ docPhase = "done"
  /\ Len(docSections) = 2

\* the lines of a section body
BodyLines(section) == Split(section.body, "\n")

\* C11: no page marker line is the heading or a body line of a returned
\* section, whichever path returned the section.
C11_NoPageMarkerInSections ==
  docPhase = "done"
    => \A i \in 1..Len(docSections) :
         /\ ~PAGE_MARKER_REGEX(Trim(docSections[i].heading))
         /\ \A j \in 1..Len(BodyLines(docSections[i])) :
              ~PAGE_MARKER_REGEX(Trim(BodyLines(docSections[i])[j]))

\* the state of the loop after the first n lines
PassAfter(lines, n) == Loop(SubSeq(lines, 1, n), 1, LoopStart)

\* the branch of the loop body that line i takes
Branch(lines, i) == LoopBody(PassAfter(lines, i - 1), lines[i]).branch

NoHeadingLine(lines) == \A i \in 1..Len(lines) : Branch(lines, i) # "heading"

\* a trimmed line with its bullet or numbered-list prefix replaced by "- "
\* (the empty line when nothing follows the bullet glyphs)
PrefixReplaced(line) ==
  IF BulletPrefixEnd(line) # 0
    THEN LET rest == Trim(SubSeq(line, BulletPrefixEnd(line), Len(line)))
         IN IF rest = <<>> THEN <<>> ELSE <<"-", " ">> \o rest
  ELSE IF NumberedBulletEnd(line) # 0
    THEN <<"-", " ">> \o Trim(SubSeq(line, NumberedBulletEnd(line), Len(line)))
  ELSE line

\* the lines with every prefix replaced
AllPrefixReplaced(lines) == [i \in 1..Len(lines) |-> PrefixReplaced(Trim(lines[i]))]

\* the lines that carry content or are blank: page markers and bullet lines
\* without content are left out, prefixes are replaced
ContentLines(lines) ==
  LET keep(line) == Trim(line) = <<>>
                      \/ (~PAGE_MARKER_REGEX(Trim(line)) /\ PrefixReplaced(Trim(line)) # <<>>)
  IN AllPrefixReplaced(SelectSeq(lines, keep))

\* the body lines joined as a section body: runs of blank lines collapsed,
\* white space at line ends and around the body removed
AsBody(lines) == Trim(StripLineEnds(CollapseLineFeeds(Join(lines, "\n"))))

\* C12 as stated: a non-empty sanitized text without a heading line gives
\* exactly one section, headed "Document", whose body is the sanitized text
\* with the bullet and numbered-list prefixes replaced by "- ".
C12_NoHeadingGivesDocument ==
  docPhase = "done"
    => LET sanitized == sanitizeText(docText)
           lines == Split(sanitized, "\n")
       IN (sanitized # <<>> /\ NoHeadingLine(lines))
            => /\ Len(docSections) = 1
               /\ docSections[1].heading = DocumentHeading
               /\ docSections[1].body = Join(AllPrefixReplaced(lines), "\n")

\* C12 amended: without a heading line the result is empty when every line
\* is blank or a page marker; otherwise it is one section headed "Document"
\* whose body is made of the content lines (page markers and content-less
\* bullets dropped, prefixes replaced by "- ", blank runs collapsed), or the
\* sanitized text itself when no line has content after normalization.
C12_NoHeadingGivesDocumentOfContent ==
  docPhase = "done"
    => LET sanitized == sanitizeText(docText)
           lines == Split(sanitized, "\n")
           content == ContentLines(lines)
       IN (sanitized # <<>> /\ NoHeadingLine(lines))
            => IF \A i \in 1..Len(lines) : BlankOrMarker(lines[i])
                 THEN docSections = <<>>
                 ELSE /\ Len(docSections) = 1
                      /\ docSections[1].heading = DocumentHeading
                      /\ docSections[1].body =
                           IF \A i \in 1..Len(content) : content[i] = <<>>
                             THEN AsBody(<<sanitized>>)
                             ELSE AsBody(content)

\* a text without heading line, with a page marker, a blank line and a
\* bullet, normalized into one section
C12_Witness ==
  /\ docPhase = "done"
  /\ NoHeadingLine(SanitizedLines(docText))
  /\ \E i \in 1..Len(docLines) : PAGE_MARKER_REGEX(Trim(docLines[i]))
  /\ \E i \in 2..Len(docLines) - 1 : docLines[i] = <<>>
  /\ \E i \in 1..Len(docLines) : BulletPrefixEnd(docLines[i]) # 0
  /\ Len(docSections) = 1
  /\ docSections[1].body # Join(AllPrefixReplaced(SanitizedLines(docText)), "\n")

\* the loop and the push after it left no section although a meaningful
\* line was seen
FallbackTaken(text) ==
  LET sanitized == sanitizeText(text)
      st == Loop(Split(sanitized, "\n"), 1, LoopStart)
  IN /\ sanitized # <<>>
     /\ PushIfContent(st.sections, st.currentSection) = <<>>
     /\ st.encounteredMeaningfulLine

\* the heading lines of the text, in order
HeadingLines(lines) ==
  SelectSeq([i \in 1..Len(lines) |-> [line |-> Trim(lines[i]), heading |-> Branch(lines, i) = "heading"]],
            LAMBDA e : e.heading)

ListItem(line) ==
  \/ NumberedBulletEnd(line) # 0
  \/ /\ BulletPrefixEnd(line) # 0
     /\ Trim(SubSeq(line, BulletPrefixEnd(line), Len(line))) # <<>>

\* line i is not a heading, "- " and its remainder is a line of a returned
\* body, and the line with its original prefix is not
ItemInBody(lines, i) ==
  LET line == Trim(lines[i])
      bodyLines == UNION {{BodyLines(docSections[k])[j] : j \in 1..Len(BodyLines(docSections[k]))} :
                            k \in 1..Len(docSections)}
  IN /\ Branch(lines, i) # "heading"
     /\ PrefixReplaced(line) \in bodyLines
     /\ line # PrefixReplaced(line) => line \notin bodyLines

\* C14 as stated: every line with a numbered-list prefix, or with a bullet
\* glyph and a non-empty remainder, becomes the body line "- " + remainder,
\* is never a heading and never keeps its prefix.
C14_ListItemsBecomeBodyLines ==
  docPhase = "done"
    => LET lines == SanitizedLines(docText)
       IN \A i \in 1..Len(lines) : ListItem(Trim(lines[i])) => ItemInBody(lines, i)

\* C14 amended: the same for every such line that is not a page marker (a
\* page marker starts with the bullet glyph "-" and is dropped instead).
C14_ListItemsButMarkersBecomeBodyLines ==
  docPhase = "done"
    => LET lines == SanitizedLines(docText)
       IN \A i \in 1..Len(lines) :
            (ListItem(Trim(lines[i])) /\ ~PAGE_MARKER_REGEX(Trim(lines[i])))
              => ItemInBody(lines, i)

\* a numbered item right after a blank line (where a heading could start)
\* and a bullet item, both in the returned bodies
C14_Witness ==
  /\ docPhase = "done"
  /\ LET lines == SanitizedLines(docText)
     IN \E i, j \in 1..Len(lines) :
          /\ i > 1 /\ Trim(lines[i - 1]) = <<>>
          /\ NumberedBulletEnd(Trim(lines[i])) # 0
          /\ BulletPrefixEnd(Trim(lines[j])) # 0
          /\ ~PAGE_MARKER_REGEX(Trim(lines[j]))
          /\ ListItem(Trim(lines[j]))
          /\ ItemInBody(lines, i) /\ ItemInBody(lines, j)

\* ------------------------------------------------------------------------
\* Properties of repeated calls of normalizePdfText (RepeatSpec)
\* ------------------------------------------------------------------------

\* C15: two calls of normalizePdfText with the same text return the same
\* sections, whatever was normalized before or between them.
C15_SameTextSameSections ==
  \A i, j \in 1..Len(callLog) :
    callLog[i].text = callLog[j].text => callLog[i].sections = callLog[j].sections

\* the same text normalized before and after a text with page markers
C15_Witness ==
  /\ Len(callLog) = 3
  /\ callLog[1].text = callLog[3].text
  /\ callLog[2].text # callLog[1].text
  /\ callLog[1].sections # <<>>
  /\ \E i \in 1..Len(SanitizedLines(callLog[2].text)) :
       PAGE_MARKER_REGEX(SanitizedLines(callLog[2].text)[i])

\* ------------------------------------------------------------------------
\* resolvePdfContent called on an input
\* ------------------------------------------------------------------------

CallerSections == SectionArray(<<[heading |-> "Intro", body |-> "Cells divide."]>>)
IngestedSections == SectionArray(<<[heading |-> "Document", body |-> "Scanned text."]>>)

ResolveInputs ==
  [pdf_sections : {NoSections, SectionArray(<<>>), CallerSections},
   metadata : {UNDEFINED, "caller metadata"},
   pdfFile : {UNDEFINED, "string"} \cup BlobSources]

\* what fetchImpl, response.ok and response.json() can yield
FetchAnswers ==
  {[kind |-> "rejects"], [kind |-> "notOk"], [kind |-> "badJson"]}
  \cup
  { [kind |-> "ok", payload |-> [sections |-> sec, metadata |-> meta]] :
      sec \in {NoSections, SectionArray(<<>>), IngestedSections},
      meta \in {UNDEFINED, "ingest metadata"} }

\* resolvePdfContent is called and runs to its first await or to its end
ResolveCalled(input) ==
  /\ resolvePc = "idle"
  /\ resolveInput' = input
  /\ LET start == resolvePdfContentStart(input)
     IN IF start.kind = "fetch"
          THEN /\ resolvePosts' = Append(resolvePosts, start.request)
               /\ resolvePc' = "fetch"
               /\ UNCHANGED resolveResult
          ELSE /\ resolveResult' = start
               /\ resolvePc' = "done"
               /\ UNCHANGED resolvePosts
  /\ UNCHANGED resolveFetch
  /\ UNCHANGED nonResolveVars

\* the request settles and resolvePdfContent runs to its end
FetchSettled(answer) ==
  /\ resolvePc = "fetch"
  /\ resolveFetch' = answer
  /\ resolveResult' = resolvePdfContentFetched(resolveInput, answer)
  /\ resolvePc' = "done"
  /\ UNCHANGED <<resolveInput, resolvePosts>>
  /\ UNCHANGED nonResolveVars

ResolveNext ==
  \/ \E input \in ResolveInputs : ResolveCalled(input)
  \/ \E answer \in FetchAnswers : FetchSettled(answer)

ResolveSpec == IdleInit /\ [][ResolveNext]_vars

\* ------------------------------------------------------------------------
\* runWorkflow: from the call to the request to the model
\* ------------------------------------------------------------------------

\* runWorkflow is called: it throws when OPENAI_API_KEY is not set, and
\* calls resolvePdfContent otherwise
WorkflowCalled(apiKey) ==
  /\ workflowPc = "idle"
  /\ workflowPc' = IF apiKey THEN "resolvePdfContent" ELSE "threw"
  /\ UNCHANGED modelRequests
  /\ UNCHANGED resolveVars
  /\ UNCHANGED nonWorkflowVars

\* await resolvePdfContent(workflow): the call and its synchronous part
ResolveStarted(input) ==
  /\ workflowPc = "resolvePdfContent"
  /\ ResolveCalled(input)

\* the promise of resolvePdfContent settles: runWorkflow rejects with it,
\* or builds the prompt and calls openai.responses.stream
ResolveAwaited ==
  /\ workflowPc = "resolvePdfContent"
  /\ resolvePc = "done"
  /\ IF resolveResult.kind = "returns"
       THEN /\ modelRequests' = Append(modelRequests,
                                       [pdf_sections |-> resolveResult.value.sections,
                                        metadata |-> resolveResult.value.metadata])
            /\ workflowPc' = "stream"
       ELSE /\ workflowPc' = "threw"
            /\ UNCHANGED modelRequests
  /\ UNCHANGED resolveVars
  /\ UNCHANGED nonWorkflowVars

WorkflowNext ==
  \/ \E apiKey \in BOOLEAN : WorkflowCalled(apiKey)
  \/ \E input \in ResolveInputs : ResolveStarted(input)
  \/ \E answer \in FetchAnswers : FetchSettled(answer)
  \/ ResolveAwaited

WorkflowSpec == IdleInit /\ [][WorkflowNext]_vars

\* ------------------------------------------------------------------------
\* C16
\* ------------------------------------------------------------------------

\* a call in which worker configuration, getText or getInfo failed
ParseFailed(call) ==
  ~call.parser \/ call.answer.getText = "throws" \/ call.answer.getInfo = "throws"

\* C16: the promise of extractPdfText never rejects, whatever pdf-parse does
\* (destroy included); when worker configuration, getText or getInfo fails it
\* resolves with text "" and metadata {pageCount: 0}, also when getText had
\* returned text and only getInfo failed.
C16_ExtractNeverRejects ==
  \A i \in 1..Len(parseLog) :
    /\ parseLog[i].settled.kind = "resolves"
    /\ ParseFailed(parseLog[i]) =>
         /\ parseLog[i].settled.value.text = <<>>
         /\ parseLog[i].settled.value.metadata = [pageCount |-> 0]

\* calls in which the worker could not be configured, in which getInfo failed
\* after getText had returned text, and in which destroy failed
C16_Witness ==
  /\ \E i \in 1..Len(parseLog) : ~parseLog[i].parser
  /\ \E i \in 1..Len(parseLog) :
       /\ parseLog[i].parser
       /\ parseLog[i].answer.getText = "ok"
       /\ parseLog[i].answer.text # <<>>
       /\ parseLog[i].answer.getInfo = "throws"
       /\ parseLog[i].settled.kind = "resolves"
  /\ \E i \in 1..Len(parseLog) :
       parseLog[i].parser /\ parseLog[i].answer.destroy = "throws"

\* ------------------------------------------------------------------------
\* C17
\* ------------------------------------------------------------------------

\* formData() of r has resolved and the file field has been read
FileRead(r) == upload[r] # NoUpload

\* the name ends with ".pdf" in any casing
PdfName(name) ==
  LET n == Len(name)
  IN /\ n >= 4
     /\ name[n - 3] = "."
     /\ name[n - 2] \in {"p", "P"}
     /\ name[n - 1] \in {"d", "D"}
     /\ name[n] \in {"f", "F"}

AcceptedUpload(file) ==
  file.isFile /\ (file.type = "application/pdf" \/ PdfName(file.name))

\* C17: when the file field holds no File, or a File that neither has MIME
\* type application/pdf nor a name ending in .pdf (any casing), the handler
\* answers 400 and calls neither extractPdfText nor runDocumentAiOcr; a File
\* with that MIME type or such a name is not answered 400 and goes on.
C17_NonPdfRejectedBeforeExtraction ==
  \A r \in Requests :
    FileRead(r) =>
      IF AcceptedUpload(upload[r])
        THEN /\ response[r].status # 400
             /\ pc[r] # "arrayBuffer" => (extractCalls[r] = 1 \/ response[r].status = 500)
        ELSE /\ pc[r] = "responded"
             /\ response[r].status = 400
             /\ extractCalls[r] = 0
             /\ ocrCalls[r] = 0

\* one request refused for its type while another, accepted for its name
\* alone, has had its text extracted
C17_Witness ==
  \E r, q \in Requests :
    /\ FileRead(r) /\ upload[r].isFile /\ ~AcceptedUpload(upload[r])
    /\ response[r].status = 400
    /\ FileRead(q) /\ upload[q].type # "application/pdf" /\ AcceptedUpload(upload[q])
    /\ extractCalls[q] = 1 /\ Resolved(q)

\* ------------------------------------------------------------------------
\* C18
\* ------------------------------------------------------------------------

GivenSections(input) ==
  input.pdf_sections.given /\ input.pdf_sections.items # <<>>

ReturnsSections(sections) ==
  resolveResult.kind = "returns" /\ resolveResult.value.sections = sections

UsableAnswer(answer) ==
  /\ answer.kind = "ok"
  /\ answer.payload.sections.given
  /\ answer.payload.sections.items # <<>>

AllPosts ==
  \A i \in 1..Len(resolvePosts) : resolvePosts[i].method = "POST"

FlagSetBefore(lines, i) ==
  i = 1 \/ Branch(lines, i - 1) \in {"blank", "marker", "empty"}

HasListPrefix(line) ==
  NumberedBulletEnd(line) # 0 \/ BulletPrefixEnd(line) # 0

\* C19: a line becomes a section heading only if the previous-line-blank
\* flag is set (start of text, or after a blank line, a page marker or an
\* empty bullet; never directly after a heading or body line), its trimmed
\* length is at most 80, and it has neither a bullet-glyph nor a
\* numbered-list prefix.
C19_HeadingOnlyIfSeparatedShortAndNoListItem ==
  docPhase = "done"
    => LET lines == SanitizedLines(docText)
       IN \A i \in 1..Len(lines) :
            Branch(lines, i) = "heading"
              => /\ FlagSetBefore(lines, i)
                 /\ Len(Trim(lines[i])) <= 80
                 /\ ~HasListPrefix(Trim(lines[i]))

\* a text in which an upper-case line is a heading after a page marker and
\* the same line, directly after that heading, is a body line
C19_Witness ==
  /\ docPhase = "done"
  /\ docLines = <<LineMarker, LineCaps, LineCaps>>
  /\ LET lines == SanitizedLines(docText)
     IN /\ Branch(lines, 1) = "marker"
        /\ Branch(lines, 2) = "heading"
        /\ Branch(lines, 3) = "body"

Eligible(lines, i) ==
  /\ FlagSetBefore(lines, i)
  /\ Trim(lines[i]) # <<>>
  /\ ~PAGE_MARKER_REGEX(Trim(lines[i]))
  /\ Len(Trim(lines[i])) <= 80
  /\ ~HasListPrefix(Trim(lines[i]))

\* one of the three rules of the sentence applies to the line
TitleRule(line) ==
  LET words == Words(line)
      capitalized == Cardinality({k \in 1..Len(words) : words[k][1] \in UpperLetters \cup Digits})
      needed == IF (6 * Len(words) + 9) \div 10 > 2 THEN (6 * Len(words) + 9) \div 10 ELSE 2
  IN \/ line[Len(line)] = ":"
     \/ Len(words) = 1 /\ SingleWordTitleRegex(line)
     \/ Len(words) > 1 /\ MultiWordTitleRegex(line) /\ capitalized >= needed

HasLetter(line) == \E k \in 1..Len(line) : line[k] \in Letters

\* C20 as stated: an eligible line is a heading whenever it ends with a
\* colon, is a single title word, or is a multi-word title with enough
\* capitalized or digit-initial words.
C20_TitleRulesMakeHeadings ==
  docPhase = "done"
    => LET lines == SanitizedLines(docText)
       IN \A i \in 1..Len(lines) :
            (Eligible(lines, i) /\ TitleRule(Trim(lines[i])))
              => Branch(lines, i) = "heading"

\* C20: an eligible line that holds at least one ASCII letter is a heading
\* whenever it ends with a colon, is a single title word, or is a multi-word
\* title with enough capitalized or digit-initial words.
C20_TitleRulesMakeHeadingsOfLettered ==
  docPhase = "done"
    => LET lines == SanitizedLines(docText)
       IN \A i \in 1..Len(lines) :
            (Eligible(lines, i) /\ HasLetter(lines[i]) /\ TitleRule(Trim(lines[i])))
              => Branch(lines, i) = "heading"

\* a text whose first line is a heading by the multi-word rule and whose
\* third line, after a blank line, is a heading by the colon rule, both
\* mostly lower-case
C20_Witness ==
  /\ docPhase = "done"
  /\ docLines = <<LineTitle, LineBlank, LineColon>>
  /\ LET lines == SanitizedLines(docText)
     IN \A i \in {1, 3} :
          /\ Eligible(lines, i) /\ HasLetter(lines[i]) /\ TitleRule(Trim(lines[i]))
          /\ Branch(lines, i) = "heading"

\* ------------------------------------------------------------------------
\* C21 (HeadSpec)
\* ------------------------------------------------------------------------

LetterCount(line) == Cardinality({k \in 1..Len(line) : line[k] \in Letters})
UpperCount(line) == Cardinality({k \in 1..Len(line) : line[k] \in UpperLetters})
EndsSentence(line) == line[Len(line)] \in {".", "?", "!"}

\* C21: an eligible line with U uppercase letters among L >= 1 ASCII letters
\* that ends in '.', '?' or '!' is a heading exactly when 10*U >= 9*L; one
\* that does not end so is a heading whenever 10*U >= 6*L.
C21_RatioThresholds ==
  docPhase = "done"
    => LET lines == SanitizedLines(docText)
       IN \A i \in 1..Len(lines) :
            (Eligible(lines, i) /\ LetterCount(lines[i]) >= 1)
              => IF EndsSentence(Trim(lines[i]))
                   THEN Branch(lines, i) = "heading"
                          <=> 10 * UpperCount(lines[i]) >= 9 * LetterCount(lines[i])
                   ELSE 10 * UpperCount(lines[i]) >= 6 * LetterCount(lines[i])
                          => Branch(lines, i) = "heading"

\* a text of three separated lines: one ending in '.' with a ratio of 6/7
\* that is no heading, one ending in '.' with a ratio of 9/10 that is, and
\* one with a ratio of 3/5 that is a heading by the ratio alone
C21_Witness ==
  /\ docPhase = "done"
  /\ docLines = <<LineSixSevenths, LineGlyphs, LineThreeFifths>>
  /\ LET lines == SanitizedLines(docText)
     IN /\ Eligible(lines, 1) /\ Branch(lines, 1) = "body"
        /\ Eligible(lines, 3) /\ Branch(lines, 3) = "heading"
        /\ ~TitleRule(Trim(lines[3]))

\* ------------------------------------------------------------------------
\* C22 (HeadSpec)
\* ------------------------------------------------------------------------

\* the heading holds only uppercase letters, digits, white space and the
\* permitted punctuation
UpperOnly(line) ==
  \A k \in 1..Len(line) :
    line[k] \in UpperLetters \cup Digits \cup WhiteSpace \cup {",", "'", "&", "-", "(", ")", "/", ":", "%"}

\* the words taken for acronyms: the narrowest reading, one word
Acronyms == {<<"N", "A", "S", "A">>}

TitleCased(word) ==
  [k \in 1..Len(word) |-> IF k = 1 THEN word[k] ELSE toLowerCase(word[k])]

\* C22: normalizeHeading collapses internal white space; a heading of
\* uppercase letters, digits and permitted punctuation only is rewritten
\* word by word in title case, except that words of at most 3 characters
\* and all-uppercase acronyms stay fully uppercase; any other heading is
\* returned as it is.
C22_HeadingTitleCasedButAcronyms ==
  docPhase = "done"
    => LET lines == SanitizedLines(docText)
       IN \A i \in 1..Len(lines) :
            Branch(lines, i) = "heading"
              => LET words == Words(Trim(lines[i]))
                     out == Words(normalizeHeading(Trim(lines[i])))
                 IN /\ Len(out) = Len(words)
                    /\ \A k \in 1..Len(words) :
                         IF ~UpperOnly(Trim(lines[i])) THEN out[k] = words[k]
                         ELSE IF Len(words[k]) <= 3 THEN out[k] = words[k]
                         ELSE IF words[k] \in Acronyms THEN out[k] = words[k]
                         ELSE out[k] = TitleCased(words[k])

\* ------------------------------------------------------------------------
\* C23 (DocSpec)
\* ------------------------------------------------------------------------

\* the line holds bullet glyphs and nothing else
GlyphsOnly(line) ==
  /\ Trim(line) # <<>>
  /\ BulletPrefixEnd(Trim(line)) # 0
  /\ Trim(SubSeq(Trim(line), BulletPrefixEnd(Trim(line)), Len(Trim(line)))) = <<>>

HasGlyphsOnlyLine(lines) == \E i \in 1..Len(lines) : GlyphsOnly(lines[i])

\* the lines with every line of bullet glyphs replaced by an empty line
GlyphsBlanked(lines) ==
  [i \in 1..Len(lines) |-> IF GlyphsOnly(lines[i]) THEN <<>> ELSE lines[i]]

\* the sections returned for the text with the glyph lines blanked, composed
\* with the line break of docText
SectionsOfBlanked ==
  LET eol == CHOOSE e \in LineBreaks : ComposeText(docLines, e) = docText
  IN normalizePdfText(ComposeText(GlyphsBlanked(docLines), eol))

\* the sections without the blank lines of their bodies
WithoutBlankLines(sections) ==
  [i \in 1..Len(sections) |->
     [heading |-> sections[i].heading,
      lines |-> SelectSeq(BodyLines(sections[i]), LAMBDA l : l # <<>>)]]

\* C23 as stated: a line of bullet glyphs only is handled exactly like a
\* blank line: the sections are those of the text with that line replaced
\* by an empty line.
C23_GlyphLineLikeBlankLine ==
  (docPhase = "done" /\ HasGlyphsOnlyLine(docLines))
    => docSections = SectionsOfBlanked

\* C23: when the forward pass emits a section, the text with a line of
\* bullet glyphs and the text with that line replaced by an empty line give
\* the same headings and the same non-blank body lines (the glyph line only
\* adds no blank line to a body); when the forward pass emits no section,
\* the glyph line counts as a meaningful line and stays in the body of the
\* fallback section, so the two results differ.
C23_GlyphLineLikeBlankLineButSpacing ==
  (docPhase = "done" /\ HasGlyphsOnlyLine(docLines))
    => IF FallbackTaken(docText)
         THEN /\ Len(docSections) = 1
              /\ \E j \in 1..Len(BodyLines(docSections[1])) :
                   GlyphsOnly(BodyLines(docSections[1])[j])
              /\ docSections # SectionsOfBlanked
         ELSE /\ docSections # <<>>
              /\ WithoutBlankLines(docSections) = WithoutBlankLines(SectionsOfBlanked)

\* an upper-case line after a line of bullet glyphs is a heading, as it is
\* after a blank line, and the two texts give the same sections
C23_Witness ==
  /\ docPhase = "done"
  /\ docLines = <<LinePlain, LineGlyphs, LineCaps, LinePlain>>
  /\ Len(docSections) = 2
  /\ docSections = SectionsOfBlanked

\* ------------------------------------------------------------------------
\* C24 (DocSpec)
\* ------------------------------------------------------------------------

\* the first heading line after line i, or the end of the text
NextHeading(lines, i) ==
  IF \E j \in (i + 1)..Len(lines) : Branch(lines, j) = "heading"
    THEN CHOOSE j \in (i + 1)..Len(lines) :
           /\ Branch(lines, j) = "heading"
           /\ \A k \in (i + 1)..(j - 1) : Branch(lines, k) # "heading"
    ELSE Len(lines) + 1

\* the body lines among lines i+1 .. the next heading, prefixes replaced
BodyAfter(lines, i) ==
  LET upto == NextHeading(lines, i) - 1
      at == SelectSeq([k \in 1..(upto - i) |-> i + k],
                      LAMBDA j : Branch(lines, j) = "body")
  IN [k \in 1..Len(at) |-> PrefixReplaced(Trim(lines[at[k]]))]

\* the sections the text describes: one for the body lines before the
\* first heading, headed "Document", and one for every heading line, each
\* with the body lines up to the next heading; those without a body line
\* are left out
DescribedSections(lines) ==
  LET group(i) ==
        [heading |-> IF i = 0 THEN DocumentHeading ELSE normalizeHeading(Trim(lines[i])),
         lines |-> IF i = 0 \/ Branch(lines, i) = "heading"
                     THEN BodyAfter(lines, i) ELSE <<>>]
  IN SelectSeq([k \in 1..(Len(lines) + 1) |-> group(k - 1)],
               LAMBDA g : g.lines # <<>>)

\* a heading line with no body line before the next heading or the end
Dropped(lines, i) ==
  Branch(lines, i) = "heading" /\ BodyAfter(lines, i) = <<>>

\* C24 as stated: a heading line that is followed by no body line before
\* the next heading line or the end of the text is dropped: the returned
\* sections are those of the other headings, and their bodies hold body
\* lines only.
C24_HeadingWithoutBodyDropped ==
  docPhase = "done"
    => LET lines == SanitizedLines(docText)
       IN (\E i \in 1..Len(lines) : Dropped(lines, i))
            => WithoutBlankLines(docSections) = DescribedSections(lines)

\* C24: such a heading line is dropped whenever the forward pass emits at
\* least one section; when it emits none, the single fallback section has
\* the whole sanitized text as its body, so the text of every heading line
\* is a line of that body.
C24_HeadingWithoutBodyDroppedButFallback ==
  docPhase = "done"
    => LET lines == SanitizedLines(docText)
       IN (\E i \in 1..Len(lines) : Dropped(lines, i))
            => IF FallbackTaken(docText)
                 THEN /\ Len(docSections) = 1
                      /\ \A i \in 1..Len(lines) :
                           Dropped(lines, i)
                             => \E j \in 1..Len(BodyLines(docSections[1])) :
                                  Trim(BodyLines(docSections[1])[j]) = Trim(lines[i])
                 ELSE WithoutBlankLines(docSections) = DescribedSections(lines)

\* a heading directly followed by a blank line and another heading is
\* dropped, and the second heading, which has a body line, is returned
C24_Witness ==
  /\ docPhase = "done"
  /\ docLines = <<LineCaps, LineBlank, LineColon, LinePlain>>
  /\ LET lines == SanitizedLines(docText)
     IN Dropped(lines, 1) /\ ~Dropped(lines, 3)
  /\ docSections = <<[heading |-> LineColon, body |-> LinePlain]>>

\* ------------------------------------------------------------------------
\* C25 (DocSpec)
\* ------------------------------------------------------------------------

\* three line breaks in a row
HasLineBreakRun(s) ==
  \E i \in 1..(Len(s) - 2) : s[i] = "\n" /\ s[i + 1] = "\n" /\ s[i + 2] = "\n"

\* a space or tab that ends a line
HasLineEndingInSpace(s) ==
  \E i \in 1..Len(s) : s[i] \in SpaceTab /\ (i = Len(s) \/ s[i + 1] = "\n")

\* white space at either end
HasOuterWhiteSpace(s) ==
  s # <<>> /\ (s[1] \in WhiteSpace \/ s[Len(s)] \in WhiteSpace)

FinalForm(s) ==
  ~HasLineBreakRun(s) /\ ~HasLineEndingInSpace(s) /\ ~HasOuterWhiteSpace(s)

\* C25: every returned section body is in final form: no run of three or
\* more line breaks, no line ending in a space or tab, no white space at
\* either end (so no leading blank line, and at most one blank line between
\* two body lines).
C25_BodiesInFinalForm ==
  docPhase = "done"
    => \A i \in 1..Len(docSections) : FinalForm(docSections[i].body)

\* a section whose last line before the next heading is blank, or two body
\* lines with a blank line, a page marker and a blank line between them
C25_Witness ==
  /\ docPhase = "done"
  /\ \/ /\ docLines = <<LinePlain, LineBlank, LineCaps, LinePlain>>
        /\ Len(docSections) = 2
        /\ docSections[1].body = LinePlain
     \/ /\ docLines = <<LinePlain, LinesPageGap, LinePlain>>
        /\ Len(docSections) = 1
        /\ docSections[1].body = LinePlain \o <<"\n", "\n">> \o LinePlain

\* ------------------------------------------------------------------------
\* C26 (SanitizeSpec)
\* ------------------------------------------------------------------------

\* a space or tab right before a line feed
HasSpaceBeforeLineBreak(s) ==
  \E i \in 1..(Len(s) - 1) : s[i] \in SpaceTab /\ s[i + 1] = "\n"

\* C26: sanitizeText returns for every input; the returned string is not
\* longer than the input, holds no carriage return, tab or non-breaking
\* space, no space or tab right before a line break, no run of three or
\* more line breaks, and no white space at either end.
C26_SanitizeTextOutput ==
  sanitizePhase = "done"
    => /\ sanitizeResult \in Seq(ValueChars)
       /\ Len(sanitizeResult) <= Len(sanitizeValue)
       /\ \A i \in 1..Len(sanitizeResult) :
            sanitizeResult[i] \notin {"\r", "\t", NBSP}
       /\ ~HasSpaceBeforeLineBreak(sanitizeResult)
       /\ ~HasLineBreakRun(sanitizeResult)
       /\ ~HasOuterWhiteSpace(sanitizeResult)

\* a carriage return, a tab before a line feed and a non-breaking space
\* between two letters
C26_Witness ==
  /\ sanitizePhase = "done"
  /\ sanitizeValue = <<"a", "\r", "\t", "\n", NBSP, "a">>
  /\ sanitizeResult = <<"a", "\n", "\n", " ", "a">>

\* ------------------------------------------------------------------------
\* C27 (ParseSpec)
\* ------------------------------------------------------------------------

\* the same call with a destroy that succeeds
WithDestroyOk(call) ==
  [parser |-> call.parser, answer |-> [call.answer EXCEPT !.destroy = "ok"]]

\* C27: whenever extractPdfText has created a parser instance, destroy is
\* called on it exactly once and the returned promise resolves, after a
\* successful extraction and after a getText or getInfo failure alike; a
\* failure of destroy is logged and the call resolves to what it resolves
\* to when destroy succeeds.
C27_DestroyCalledOnce ==
  \A i \in 1..Len(parseLog) :
    parseLog[i].parser
      => /\ parseLog[i].cleanup.calls = 1
         /\ parseLog[i].settled.kind = "resolves"
         /\ parseLog[i].answer.destroy = "throws"
              => /\ parseLog[i].cleanup.logged
                 /\ \A j \in 1..Len(parseLog) :
                      [parser |-> parseLog[j].parser, answer |-> parseLog[j].answer]
                          = WithDestroyOk(parseLog[i])
                        => parseLog[j].settled = parseLog[i].settled

\* a call whose getText failed, a successful call whose destroy failed,
\* and the same successful call with a destroy that succeeded
C27_Witness ==
  /\ \E i \in 1..Len(parseLog) :
       /\ parseLog[i].parser /\ parseLog[i].answer.getText = "throws"
       /\ parseLog[i].cleanup.calls = 1
  /\ \E i, j \in 1..Len(parseLog) :
       /\ parseLog[i].parser /\ ~ParseFailed(parseLog[i])
       /\ parseLog[i].answer.destroy = "throws"
       /\ parseLog[j].answer.destroy = "ok"
       /\ [parser |-> parseLog[j].parser, answer |-> parseLog[j].answer]
            = WithDestroyOk(parseLog[i])
       /\ parseLog[i].settled.value.text # <<>>

\* ------------------------------------------------------------------------
\* C28 (Spec)
\* ------------------------------------------------------------------------

GenericError == ErrorResponse(500, "Unable to ingest PDF. Please try again.")

\* the invocation ended and request.formData() had rejected: no upload was
\* ever read
FormThrew(r) == pc[r] = "responded" /\ upload[r] = NoUpload

\* the invocation ended and file.arrayBuffer() had rejected: the upload
\* passed both validations and extractPdfText was never called
BufferThrew(r) ==
  /\ pc[r] = "responded"
  /\ AcceptedUpload(upload[r])
  /\ extractCalls[r] = 0

AtLeastOneSection(sections) ==
  sections.given /\ Len(sections.items) >= 1

\* the ingest API answered 200 with sections = [], or with a status that is
\* not 2xx
NothingIngested(answer) ==
  \/ answer.kind = "notOk"
  \/ answer.kind = "ok" /\ answer.payload.sections = SectionArray(<<>>)

\* C30: runWorkflow never sends a request to the model with an empty list
\* of sections: resolvePdfContent returns at least one section or throws,
\* and it throws when the ingest API answers 200 with sections = [] or
\* with a status that is not 2xx; runWorkflow then throws without a request
\* to the model.
C30_NoModelRequestWithoutSections ==
  /\ \A i \in 1..Len(modelRequests) : AtLeastOneSection(modelRequests[i].pdf_sections)
  /\ Len(modelRequests) <= 1
  /\ resolvePc = "done"
       => /\ resolveResult.kind \in {"returns", "throws"}
          /\ resolveResult.kind = "returns"
               => AtLeastOneSection(resolveResult.value.sections)
          /\ (Len(resolvePosts) = 1 /\ NothingIngested(resolveFetch))
               => resolveResult.kind = "throws"
  /\ workflowPc = "stream" <=> Len(modelRequests) = 1
  /\ (workflowPc = "threw" /\ resolvePc = "done") => resolveResult.kind = "throws"

\* runWorkflow has thrown after the ingest API answered 200 with
\* sections = []; no request was made to the model
C30_Witness ==
  /\ workflowPc = "threw"
  /\ Len(resolvePosts) = 1
  /\ resolveFetch.kind = "ok"
  /\ resolveFetch.payload.sections = SectionArray(<<>>)
  /\ resolveInput.pdf_sections = SectionArray(<<>>)
  /\ modelRequests = <<>>

\* ------------------------------------------------------------------------
\* C29 (DocSpec)
\* ------------------------------------------------------------------------

\* the lines of all sections, one after the other
RECURSIVE AllLines(_)
AllLines(sections) ==
  IF sections = <<>> THEN <<>>
  ELSE sections[1].lines \o AllLines(Tail(sections))

\* the body lines of the text in document order, prefixes replaced
NormalizedBodyLines(lines) ==
  LET at == SelectSeq([k \in 1..Len(lines) |-> k],
                      LAMBDA j : Branch(lines, j) = "body")
  IN [k \in 1..Len(at) |-> PrefixReplaced(Trim(lines[at[k]]))]

\* C29: whenever the forward pass emits at least one section, the sections
\* are in document order, one for every heading that has body lines (equal
\* headings give separate sections), and the non-blank lines of the bodies
\* are exactly the normalized body lines of the text in document order, each
\* in the section opened by the nearest preceding heading.
C29_BodyLinesKeptInOrder ==
  (docPhase = "done" /\ docSections # <<>> /\ ~FallbackTaken(docText))
    => LET lines == SanitizedLines(docText)
       IN /\ WithoutBlankLines(docSections) = DescribedSections(lines)
          /\ AllLines(WithoutBlankLines(docSections)) = NormalizedBodyLines(lines)

\* two sections with the same heading, each with its own body line
C29_Witness ==
  /\ docPhase = "done"
  /\ docLines = <<LinesSection, LineBlank, LinesSection, LineBullet>>
  /\ ~FallbackTaken(docText)
  /\ Len(docSections) = 2
  /\ docSections[1].heading = docSections[2].heading
  /\ docSections[1].body = LinePlain
  /\ Len(BodyLines(docSections[2])) = 2


====
